---------------------------- MODULE Spec2Model ----------------------------
(***************************************************************************)
(* A model of AnonymizationService (src/src/services/AnonymizationService  *)
(* .ts): the rule table, the anonymize pipeline with its two private       *)
(* post-processing passes, and the record redaction loop.                  *)
(*                                                                         *)
(* A text is a sequence of UTF-16 code units (what a JavaScript string     *)
(* is), so the character classes of the source's regular expressions are   *)
(* the code-unit ranges the source writes.  A literal is followed by a     *)
(* comment that shows its text.                                            *)
(***************************************************************************)
EXTENDS Integers, Sequences, FiniteSets, TLC

(***************************************************************************)
(* Sequences.                                                              *)
(***************************************************************************)
InSeq(e, s) == \E j \in 1..Len(s) : s[j] = e

CharsOf(s) == {s[j] : j \in 1..Len(s)}

\* a \o the elements of b that a does not hold, in b's order
Merge(a, b) == a \o SelectSeq(b, LAMBDA e : ~InSeq(e, a))

\* String.prototype.includes
Includes(s, sub) ==
  \E p \in 0..(Len(s) - Len(sub)) : SubSeq(s, p + 1, p + Len(sub)) = sub

(***************************************************************************)
(* Character classes of the ECMAScript regular expressions (no u flag).    *)
(***************************************************************************)
Digit == 48..57
\* \w
Word == (48..57) \cup (65..90) \cup (97..122) \cup {95}
\* \s
WhiteSpace ==
  {9, 10, 11, 12, 13, 32, 160, 5760, 8232, 8233, 8239, 8287, 12288, 65279}
    \cup (8192..8202)
\* .
AnyChar == (0..65535) \ {10, 13, 8232, 8233}
\* [一-龯]
Kanji == 19968..40879
\* [一-龯぀-ゟ゠-ヿ]
CJK == (19968..40879) \cup (12352..12447) \cup (12448..12543)

(***************************************************************************)
(* Regular expressions as syntax trees, and the backtracking matcher.      *)
(* Ends(re, s, p) lists the offsets at which a match of re that starts at  *)
(* offset p of s can end, in the order the backtracking matcher tries      *)
(* them: its head is the match the matcher returns.  An offset already     *)
(* listed is not listed again (the matcher would continue from it the same *)
(* way).                                                                   *)
(***************************************************************************)
Cls(S) == [t |-> "cls", set |-> S]
Chr(c) == [t |-> "cls", set |-> {c}]
Cat(parts) == [t |-> "cat", parts |-> parts]
Alt(parts) == [t |-> "alt", parts |-> parts]
\* max = -1: no upper limit
Rep(r, min, max) == [t |-> "rep", r |-> r, min |-> min, max |-> max, lazy |-> FALSE]
Lazy(r, min, max) == [t |-> "rep", r |-> r, min |-> min, max |-> max, lazy |-> TRUE]
Plus(r) == Rep(r, 1, -1)
Star(r) == Rep(r, 0, -1)
Opt(r) == Rep(r, 0, 1)
Str(s) == [t |-> "cat", parts |-> [j \in 1..Len(s) |-> Chr(s[j])]]

\* The repetition of one character class: it can end after min to hi
\* characters, hi the length of the run of the class at p, cut at max; a
\* greedy repetition tries the longest first, a lazy one the shortest.
EndsRun(re, s, p) ==
  LET run == CHOOSE n \in 0..(Len(s) - p) :
               /\ \A j \in 1..n : s[p + j] \in re.r.set
               /\ n = Len(s) - p \/ s[p + n + 1] \notin re.r.set
      hi == IF re.max # -1 /\ re.max < run THEN re.max ELSE run
  IN  IF hi < re.min THEN <<>>
      ELSE [j \in 1..(hi - re.min + 1) |->
              IF re.lazy THEN p + re.min + j - 1 ELSE p + hi - j + 1]

RECURSIVE Ends(_, _, _), EndsFrom(_, _, _), EndsCat(_, _, _, _)
RECURSIVE EndsAlt(_, _, _, _), RepVisit(_, _, _, _, _), RepEach(_, _, _, _, _)

Ends(re, s, p) ==
  CASE re.t = "cls" ->
         IF p < Len(s) /\ s[p + 1] \in re.set THEN <<p + 1>> ELSE <<>>
    [] re.t = "cat" -> EndsCat(re.parts, 1, s, <<p>>)
    [] re.t = "alt" -> EndsAlt(re.parts, 1, s, p)
    [] re.t = "rep" ->
         IF re.r.t = "cls" THEN EndsRun(re, s, p)
         ELSE RepVisit(re, s, p, 0, [out |-> <<>>, seen |-> [q \in 0..Len(s) |-> {}]]).out

EndsFrom(re, s, ps) ==
  IF ps = <<>> THEN <<>>
  ELSE Merge(Ends(re, s, Head(ps)), EndsFrom(re, s, Tail(ps)))

EndsCat(parts, k, s, ps) ==
  IF k > Len(parts) \/ ps = <<>> THEN ps
  ELSE EndsCat(parts, k + 1, s, EndsFrom(parts[k], s, ps))

EndsAlt(parts, k, s, p) ==
  IF k > Len(parts) THEN <<>>
  ELSE Merge(Ends(parts[k], s, p), EndsAlt(parts, k + 1, s, p))

\* The repetition re at offset p with n iterations done (n is counted only
\* as far as min and max need it).  A greedy repetition tries one more
\* iteration before it stops, a lazy one stops first; an iteration that
\* matches the empty string is refused.  st.seen[p] holds the n already tried
\* at p: what trying one again would list is listed already.
RepVisit(re, s, p, n, st) ==
  IF n \in st.seen[p] THEN st
  ELSE LET entered == [st EXCEPT !.seen[p] = @ \cup {n}]
           iter == IF re.max = -1 \/ n < re.max
                   THEN SelectSeq(Ends(re.r, s, p), LAMBDA e : e > p)
                   ELSE <<>>
           next == IF re.max = -1 /\ n >= re.min THEN n ELSE n + 1
           Stop(x) == IF n >= re.min /\ ~InSeq(p, x.out)
                      THEN [x EXCEPT !.out = Append(@, p)] ELSE x
       IN  IF re.lazy THEN RepEach(re, s, iter, next, Stop(entered))
           ELSE Stop(RepEach(re, s, iter, next, entered))

\* (the test of r.out makes TLC compute r before it goes on)
RepEach(re, s, ps, n, st) ==
  IF ps = <<>> THEN st
  ELSE LET r == RepVisit(re, s, Head(ps), n, st)
       IN  IF Len(r.out) >= 0 THEN RepEach(re, s, Tail(ps), n, r) ELSE r

(***************************************************************************)
(* The matches of a global regular expression in s, left to right, each    *)
(* <<start offset, end offset>>: the search resumes at the end of a match, *)
(* one code unit further after an empty match.                             *)
(***************************************************************************)
\* first[p]: the end of the match the matcher returns at offset p, -1 if none
RECURSIVE MatchesFrom(_, _, _)
MatchesFrom(first, n, p) ==
  IF \A q \in p..n : first[q] = -1 THEN <<>>
  ELSE LET q == CHOOSE q \in p..n : first[q] # -1 /\ \A x \in p..(q - 1) : first[x] = -1
       IN  <<<<q, first[q]>>>>
             \o MatchesFrom(first, n, IF first[q] = q THEN q + 1 ELSE first[q])

Matches(re, s) ==
  LET first == [p \in 0..Len(s) |->
                  LET es == Ends(re, s, p) IN IF es = <<>> THEN -1 ELSE Head(es)]
  IN  MatchesFrom(first, Len(s), 0)

Matched(s, span) == SubSeq(s, span[1] + 1, span[2])

\* RegExp.prototype.test
Test(re, s) == Matches(re, s) # <<>>

\* s with each span replaced by the piece of the same index
RECURSIVE Splice(_, _, _, _, _)
Splice(s, spans, pieces, k, pos) ==
  IF k > Len(spans) THEN SubSeq(s, pos + 1, Len(s))
  ELSE SubSeq(s, pos + 1, spans[k][1]) \o pieces[k]
         \o Splice(s, spans, pieces, k + 1, spans[k][2])

(***************************************************************************)
(* Numbers and their decimal text.                                         *)
(***************************************************************************)
RECURSIVE ParseDigits(_, _)
ParseDigits(s, acc) ==
  IF s = <<>> THEN acc ELSE ParseDigits(Tail(s), acc * 10 + (Head(s) - 48))

\* the longest prefix of digits
RECURSIVE DigitPrefix(_)
DigitPrefix(s) ==
  IF s # <<>> /\ Head(s) \in Digit THEN <<Head(s)>> \o DigitPrefix(Tail(s))
  ELSE <<>>

\* parseInt of a text that starts with a digit
parseInt(s) == ParseDigits(DigitPrefix(s), 0)

RECURSIVE NatToString(_)
NatToString(n) ==
  IF n < 10 THEN <<48 + n>> ELSE NatToString(n \div 10) \o <<48 + (n % 10)>>

\* String(n) of an integer
NumberToString(n) == IF n < 0 THEN <<45 (* - *)>> \o NatToString(-n) ELSE NatToString(n)

(***************************************************************************)
(* anonymizationRules: the patterns.                                       *)
(***************************************************************************)
\* /株式会社[CJK]+|[CJK]+株式会社|[CJK]+\s*(Inc\.|Corp\.|Co\.,?\s*Ltd\.?)/g
companyNamePattern ==
  Alt(<<Cat(<<Str(<<26666, 24335, 20250, 31038>> (* 株式会社 *)), Plus(Cls(CJK))>>),
        Cat(<<Plus(Cls(CJK)), Str(<<26666, 24335, 20250, 31038>> (* 株式会社 *))>>),
        Cat(<<Plus(Cls(CJK)), Star(Cls(WhiteSpace)),
              Alt(<<Str(<<73, 110, 99, 46>> (* Inc. *)), Str(<<67, 111, 114, 112, 46>> (* Corp. *)),
                    Cat(<<Str(<<67, 111, 46>> (* Co. *)), Opt(Chr(44 (* , *))), Star(Cls(WhiteSpace)),
                          Str(<<76, 116, 100>> (* Ltd *)), Opt(Chr(46 (* . *)))>>)>>)>>)>>)

\* /[田中|佐藤|鈴木|高橋|渡辺|伊藤|山本|中村|小林|加藤][一-龯]{1,3}[様|さん|氏|社長|部長|課長|主任]/g
\* (the brackets make character classes: one character of each list)
personNamePattern ==
  Cat(<<Cls(CharsOf(<<30000, 20013, 124, 20304, 34276, 124, 37428, 26408, 124, 39640, 27211, 124, 28193, 36794, 124, 20234, 34276, 124, 23665, 26412, 124, 20013, 26449, 124, 23567, 26519, 124, 21152, 34276>> (* 田中|佐藤|鈴木|高橋|渡辺|伊藤|山本|中村|小林|加藤 *))),
        Rep(Cls(Kanji), 1, 3),
        Cls(CharsOf(<<27096, 124, 12373, 12435, 124, 27663, 124, 31038, 38263, 124, 37096, 38263, 124, 35506, 38263, 124, 20027, 20219>> (* 様|さん|氏|社長|部長|課長|主任 *)))>>)

\* /[\w\.-]+@[\w\.-]+\.\w+/g
emailPattern ==
  Cat(<<Plus(Cls(Word \cup {46 (* . *), 45 (* - *)})), Chr(64 (* @ *)),
        Plus(Cls(Word \cup {46 (* . *), 45 (* - *)})), Chr(46 (* . *)), Plus(Cls(Word))>>)

\* /0\d{1,4}-\d{1,4}-\d{4}|0\d{9,10}/g
phonePattern ==
  Alt(<<Cat(<<Chr(48 (* 0 *)), Rep(Cls(Digit), 1, 4), Chr(45 (* - *)),
              Rep(Cls(Digit), 1, 4), Chr(45 (* - *)), Rep(Cls(Digit), 4, 4)>>),
        Cat(<<Chr(48 (* 0 *)), Rep(Cls(Digit), 9, 10)>>)>>)

\* (\d{1,3},?)+(億|万)?円
AmountPattern ==
  Cat(<<Plus(Cat(<<Rep(Cls(Digit), 1, 3), Opt(Chr(44 (* , *)))>>)),
        Opt(Alt(<<Chr(20740 (* 億 *)), Chr(19975 (* 万 *))>>)), Chr(20870 (* 円 *))>>)

\* \d+(\.\d+)?%
PercentPattern ==
  Cat(<<Plus(Cls(Digit)), Opt(Cat(<<Chr(46 (* . *)), Plus(Cls(Digit))>>)), Chr(37 (* % *))>>)

\* /(\d{1,3},?)+(億|万)?円の売上|売上(\d{1,3},?)+(億|万)?円|シェア\d+(\.\d+)?%|前年比\d+(\.\d+)?%/g
specificNumbersPattern ==
  Alt(<<Cat(<<AmountPattern, Str(<<12398, 22770, 19978>> (* の売上 *))>>),
        Cat(<<Str(<<22770, 19978>> (* 売上 *)), AmountPattern>>),
        Cat(<<Str(<<12471, 12455, 12450>> (* シェア *)), PercentPattern>>),
        Cat(<<Str(<<21069, 24180, 27604>> (* 前年比 *)), PercentPattern>>)>>)

\* /〒\d{3}-\d{4}.*?[一-龯]+[都道府県].*?[一-龯\d\-]+/g
addressPattern ==
  Cat(<<Chr(12306 (* 〒 *)), Rep(Cls(Digit), 3, 3), Chr(45 (* - *)), Rep(Cls(Digit), 4, 4),
        Lazy(Cls(AnyChar), 0, -1), Plus(Cls(Kanji)), Cls(CharsOf(<<37117, 36947, 24220, 30476>> (* 都道府県 *))),
        Lazy(Cls(AnyChar), 0, -1), Plus(Cls(Kanji \cup Digit \cup {45 (* - *)}))>>)

\* /「[一-龯぀-ゟ゠-ヿ\w\s]+」/g
productNamePattern ==
  Cat(<<Chr(12300 (* 「 *)), Plus(Cls(CJK \cup Word \cup WhiteSpace)), Chr(12301 (* 」 *))>>)

(***************************************************************************)
(* anonymizationRules: the replacements, a string or a function of the     *)
(* match.                                                                  *)
(***************************************************************************)
StringValue(text) == [kind |-> "string", text |-> text]
FunctionValue(name) == [kind |-> "function", name |-> name]

specificNumbersReplacement(match) ==
  IF Includes(match, <<20740, 20870>> (* 億円 *)) THEN <<25968, 21313, 20740, 20870, 35215, 27169, 12398, 22770, 19978>> (* 数十億円規模の売上 *)
  ELSE IF Includes(match, <<19975, 20870>> (* 万円 *)) THEN <<25968, 21315, 19975, 20870, 35215, 27169, 12398, 22770, 19978>> (* 数千万円規模の売上 *)
  ELSE IF Includes(match, <<12471, 12455, 12450>> (* シェア *)) THEN <<26989, 30028, 12488, 12483, 12503, 12463, 12521, 12473, 12398, 12471, 12455, 12450>> (* 業界トップクラスのシェア *)
  ELSE IF Includes(match, <<21069, 24180, 27604>> (* 前年比 *)) THEN <<21069, 24180, 27604, 22823, 24133, 22679>> (* 前年比大幅増 *)
  ELSE <<38750, 20844, 38283>> (* 非公開 *)

productNameReplacement(match) ==
  IF Includes(match, <<12471, 12473, 12486, 12512>> (* システム *)) \/ Includes(match, <<12477, 12501, 12488>> (* ソフト *))
  THEN <<12300, 29420, 33258, 38283, 30330, 12471, 12473, 12486, 12512, 12301>> (* 「独自開発システム」 *)
  ELSE IF Includes(match, <<12469, 12540, 12499, 12473>> (* サービス *)) THEN <<12300, 33258, 31038, 12469, 12540, 12499, 12473, 12301>> (* 「自社サービス」 *)
  ELSE <<12300, 33258, 31038, 35069, 21697, 12301>> (* 「自社製品」 *)

\* the table with personName written before companyName
RuleKeysPersonFirst ==
  <<"personName", "companyName", "email", "phone", "specificNumbers",
    "address", "productName">>

\* the keys in insertion order: the order of Object.entries
RuleKeys ==
  <<"companyName", "personName", "email", "phone", "specificNumbers",
    "address", "productName">>

anonymizationRules ==
  [companyName |->
     [pattern |-> companyNamePattern, replacement |-> StringValue(<<26576, 22823, 25163, 20225, 26989>> (* 某大手企業 *))],
   personName |->
     [pattern |-> personNamePattern, replacement |-> StringValue(<<25285, 24403, 32773>> (* 担当者 *))],
   email |->
     [pattern |-> emailPattern,
      replacement |-> StringValue(<<99, 111, 110, 116, 97, 99, 116, 64, 101, 120, 97, 109, 112, 108, 101, 46, 99, 111, 109>> (* contact@example.com *))],
   phone |->
     [pattern |-> phonePattern, replacement |-> StringValue(<<48, 88, 88, 45, 88, 88, 88, 88, 45, 88, 88, 88, 88>> (* 0XX-XXXX-XXXX *))],
   specificNumbers |->
     [pattern |-> specificNumbersPattern,
      replacement |-> FunctionValue("specificNumbers")],
   address |->
     [pattern |-> addressPattern, replacement |-> StringValue(<<26412, 31038, 25152, 22312, 22320>> (* 本社所在地 *))],
   productName |->
     [pattern |-> productNamePattern,
      replacement |-> FunctionValue("productName")]]

(***************************************************************************)
(* obscureNumbers: the patterns and the callbacks.  The first group of     *)
(* both patterns is the digits the match starts with.                      *)
(***************************************************************************)
\* /(\d{4,})(万円)/g
amountPattern == Cat(<<Rep(Cls(Digit), 4, -1), Str(<<19975, 20870>> (* 万円 *))>>)

\* /(\d{2,3})(\.\d+)?%/g
percentPattern ==
  Cat(<<Rep(Cls(Digit), 2, 3), Opt(Cat(<<Chr(46 (* . *)), Plus(Cls(Digit))>>)),
        Chr(37 (* % *))>>)

\* the callback of lines 95-100 with > 10000 for >= 10000
obscureAmountAboveTenThousand(match) ==
  LET value == parseInt(DigitPrefix(match))
  IN  IF value > 10000 THEN <<25968, 20740, 20870>> (* 数億円 *)
      ELSE IF value >= 1000 THEN <<25968, 21315, 19975, 20870>> (* 数千万円 *)
      ELSE match

\* the callback of lines 95-100 with its two labels exchanged
obscureAmountLabelsExchanged(match) ==
  LET value == parseInt(DigitPrefix(match))
  IN  IF value >= 10000 THEN <<25968, 21315, 19975, 20870>> (* 数千万円 *)
      ELSE IF value >= 1000 THEN <<25968, 20740, 20870>> (* 数億円 *)
      ELSE match

obscureAmount(match) ==
  LET value == parseInt(DigitPrefix(match))
  IN  IF value >= 10000 THEN <<25968, 20740, 20870>> (* 数億円 *)
      ELSE IF value >= 1000 THEN <<25968, 21315, 19975, 20870>> (* 数千万円 *)
      ELSE match

\* the callback of lines 103-110 with a decimal part rounding the value up
obscurePercentRoundedUp(match) ==
  LET value == parseInt(DigitPrefix(match))
                 + (IF Includes(match, <<46>> (* . *)) THEN 1 ELSE 0)
  IN  IF value >= 80 THEN <<56, 48, 37, 20197, 19978>> (* 80%以上 *)
      ELSE IF value >= 50 THEN <<53, 48, 37, 20197, 19978>> (* 50%以上 *)
      ELSE IF value >= 30 THEN <<32004, 51, 48, 45, 53, 48, 37>> (* 約30-50% *)
      ELSE IF value >= 10 THEN <<49, 48, 37, 20197, 19978>> (* 10%以上 *)
      ELSE <<49, 48, 37, 26410, 28288>> (* 10%未満 *)

obscurePercent(match) ==
  LET value == parseInt(DigitPrefix(match))
  IN  IF value >= 80 THEN <<56, 48, 37, 20197, 19978>> (* 80%以上 *)
      ELSE IF value >= 50 THEN <<53, 48, 37, 20197, 19978>> (* 50%以上 *)
      ELSE IF value >= 30 THEN <<32004, 51, 48, 45, 53, 48, 37>> (* 約30-50% *)
      ELSE IF value >= 10 THEN <<49, 48, 37, 20197, 19978>> (* 10%以上 *)
      ELSE <<49, 48, 37, 26410, 28288>> (* 10%未満 *)

(***************************************************************************)
(* generalizeDates: the patterns and the callbacks.                        *)
(***************************************************************************)
\* /20\d{2}年\d{1,2}月/
yearMonthPattern ==
  Cat(<<Str(<<50, 48>> (* 20 *)), Rep(Cls(Digit), 2, 2), Chr(24180 (* 年 *)), Rep(Cls(Digit), 1, 2),
        Chr(26376 (* 月 *))>>)

\* /20\d{2}年\d{1,2}月\d{1,2}日/g
fullDatePattern ==
  Cat(<<yearMonthPattern, Rep(Cls(Digit), 1, 2), Chr(26085 (* 日 *))>>)

\* /20\d{2}年/g
yearPattern == Cat(<<Str(<<50, 48>> (* 20 *)), Rep(Cls(Digit), 2, 2), Chr(24180 (* 年 *))>>)

\* /\d{4}/
fourDigitsPattern == Rep(Cls(Digit), 4, 4)

truncateDate(match) ==
  LET yearMonth == Matches(yearMonthPattern, match)
  IN  IF yearMonth # <<>> THEN Matched(match, yearMonth[1]) ELSE match

\* relativeYear with diff < 5 for diff <= 5
relativeYearBelowFive(match, currentYear) ==
  LET year == parseInt(Matched(match, Matches(fourDigitsPattern, match)[1]))
      diff == currentYear - year
  IN  IF diff = 0 THEN <<20170, 24180>> (* 今年 *)
      ELSE IF diff = 1 THEN <<26152, 24180>> (* 昨年 *)
      ELSE IF diff = 2 THEN <<19968, 26152, 24180>> (* 一昨年 *)
      ELSE IF diff < 5 THEN NumberToString(diff) \o <<24180, 21069>> (* 年前 *)
      ELSE <<25968, 24180, 21069>> (* 数年前 *)

\* relativeYear without the branch of diff = 2
relativeYearNoBranchTwo(match, currentYear) ==
  LET year == parseInt(Matched(match, Matches(fourDigitsPattern, match)[1]))
      diff == currentYear - year
  IN  IF diff = 0 THEN <<20170, 24180>> (* 今年 *)
      ELSE IF diff = 1 THEN <<26152, 24180>> (* 昨年 *)
      ELSE IF diff <= 5 THEN NumberToString(diff) \o <<24180, 21069>> (* 年前 *)
      ELSE <<25968, 24180, 21069>> (* 数年前 *)

relativeYear(match, currentYear) ==
  LET year == parseInt(Matched(match, Matches(fourDigitsPattern, match)[1]))
      diff == currentYear - year
  IN  IF diff = 0 THEN <<20170, 24180>> (* 今年 *)
      ELSE IF diff = 1 THEN <<26152, 24180>> (* 昨年 *)
      ELSE IF diff = 2 THEN <<19968, 26152, 24180>> (* 一昨年 *)
      ELSE IF diff <= 5 THEN NumberToString(diff) \o <<24180, 21069>> (* 年前 *)
      ELSE <<25968, 24180, 21069>> (* 数年前 *)

(***************************************************************************)
(* String.prototype.replace(pattern, replaceValue) with a global pattern.  *)
(* A string replaceValue of the program holds no $, so it is inserted as   *)
(* it is; a function is called with the match and its result inserted.     *)
(* Object is what the lookup of getGenericReplacement finds for the        *)
(* category "constructor": called as a function it returns its argument    *)
(* (as a String object, which replace converts back to the string).       *)
(***************************************************************************)
CallFunction(f, match) ==
  CASE f.name = "specificNumbers" -> specificNumbersReplacement(match)
    [] f.name = "productName" -> productNameReplacement(match)
    [] f.name = "obscureAmount" -> obscureAmount(match)
    [] f.name = "obscurePercent" -> obscurePercent(match)
    [] f.name = "truncateDate" -> truncateDate(match)
    [] f.name = "relativeYear" -> relativeYear(match, f.currentYear)
    [] f.name = "Object" -> match

ReplaceValueFor(replaceValue, match) ==
  IF replaceValue.kind = "string" THEN replaceValue.text
  ELSE CallFunction(replaceValue, match)

Replace(s, pattern, replaceValue) ==
  LET spans == Matches(pattern, s)
      pieces == [k \in 1..Len(spans) |->
                   ReplaceValueFor(replaceValue, Matched(s, spans[k]))]
  IN  Splice(s, spans, pieces, 1, 0)

(***************************************************************************)
(* getGenericReplacement.  The table is an object literal, so a lookup     *)
(* that finds no own key goes on to Object.prototype: "constructor" finds  *)
(* the function Object there.  (The other inherited keys, toString and so  *)
(* on, are found the same way; the model draws only this one.)             *)
(***************************************************************************)
replacements ==
  [financial |-> <<36001, 21209, 38306, 36899, 24773, 22577>> (* 財務関連情報 *),
   strategic |-> <<32076, 21942, 25126, 30053, 24773, 22577>> (* 経営戦略情報 *),
   personnel |-> <<20154, 20107, 24773, 22577>> (* 人事情報 *),
   technical |-> <<25216, 34899, 24773, 22577>> (* 技術情報 *),
   customer |-> <<39015, 23458, 24773, 22577>> (* 顧客情報 *),
   partner |-> <<12497, 12540, 12488, 12490, 12540, 24773, 22577>> (* パートナー情報 *),
   internal |-> <<31038, 20869, 24773, 22577>> (* 社内情報 *)]

\* replacements[category]
GetProperty(category) ==
  IF category \in DOMAIN replacements THEN StringValue(replacements[category])
  ELSE IF category = "constructor" THEN FunctionValue("Object")
  ELSE [kind |-> "undefined"]

getGenericReplacement(category) ==
  LET value == GetProperty(category)
  IN  IF value.kind = "undefined" THEN StringValue(<<38750, 20844, 38283, 24773, 22577>> (* 非公開情報 *)) ELSE value

(***************************************************************************)
(* escapeRegex, and new RegExp(source, 'g') of a source in which every     *)
(* syntax character is escaped.                                            *)
(***************************************************************************)
SyntaxChars == CharsOf(<<46, 42, 43, 63, 94, 36, 123, 125, 40, 41, 124, 91, 93, 92>> (* .*+?^${}()|[]\ *))

RECURSIVE escapeRegex(_)
escapeRegex(str) ==
  IF str = <<>> THEN <<>>
  ELSE (IF Head(str) \in SyntaxChars THEN <<92 (* \ *), Head(str)>> ELSE <<Head(str)>>)
         \o escapeRegex(Tail(str))

\* the atoms of the source: \c is the character c, . any character but a
\* line end, a character that is no syntax character itself
RECURSIVE Atoms(_)
Atoms(source) ==
  IF source = <<>> THEN <<>>
  ELSE IF Head(source) = 92 (* \ *) /\ Len(source) >= 2
       THEN <<Chr(source[2])>> \o Atoms(Tail(Tail(source)))
       ELSE IF Head(source) = 46 (* . *)
            THEN <<Cls(AnyChar)>> \o Atoms(Tail(source))
            ELSE <<Chr(Head(source))>> \o Atoms(Tail(source))

RegExp(source) == Cat(Atoms(source))

(***************************************************************************)
(* The passes of anonymize, each on the running text.                      *)
(***************************************************************************)
\* the condition of line 64 without its second half
EligibleIfConfidential(info) == info.isConfidential

\* the condition of line 64
Eligible(info) == info.isConfidential /\ ~info.isPublic

\* lines 66-70, for a record that has a title
RedactRecord(text, info) ==
  Replace(text, RegExp(escapeRegex(info.title)), getGenericReplacement(info.category))

\* lines 76-80: both branches make the same call
ApplyRule(text, key) ==
  LET rule == anonymizationRules[key]
  IN  IF rule.replacement.kind = "string"
      THEN Replace(text, rule.pattern, rule.replacement)
      ELSE Replace(text, rule.pattern, rule.replacement)

obscureAmounts(text) == Replace(text, amountPattern, FunctionValue("obscureAmount"))

obscurePercents(text) == Replace(text, percentPattern, FunctionValue("obscurePercent"))

obscureNumbers(text) == obscurePercents(obscureAmounts(text))

truncateDates(text) == Replace(text, fullDatePattern, FunctionValue("truncateDate"))

relativeYears(text, currentYear) ==
  Replace(text, yearPattern,
          [kind |-> "function", name |-> "relativeYear", currentYear |-> currentYear])

generalizeDates(text, currentYear) == relativeYears(truncateDates(text), currentYear)

\* lines 63-72 from record j on, for records that have their titles
RECURSIVE RedactFrom(_, _, _)
RedactFrom(text, infos, j) ==
  IF j > Len(infos) THEN text
  ELSE RedactFrom(IF Eligible(infos[j]) THEN RedactRecord(text, infos[j]) ELSE text,
                  infos, j + 1)

\* lines 75-81 from rule j on
RECURSIVE ApplyRulesFrom(_, _)
ApplyRulesFrom(text, j) ==
  IF j > Len(RuleKeys) THEN text
  ELSE ApplyRulesFrom(ApplyRule(text, RuleKeys[j]), j + 1)

\* lines 59-90: what anonymize returns when it throws nothing
Anonymized(c, infos, year) ==
  generalizeDates(obscureNumbers(ApplyRulesFrom(RedactFrom(c, infos, 1), 1)), year)

(***************************************************************************)
(* The inputs the model draws.                                             *)
(***************************************************************************)
\* the longest companyInfo list
MaxRecords == 1

Fragments ==
  {<<>> (*  *), <<30000, 20013>> (* 田中 *), <<26666, 24335, 20250, 31038>> (* 株式会社 *), <<27096>> (* 様 *), <<24773, 22577>> (* 情報 *), <<12488, 12520, 12479>> (* トヨタ *), <<97, 64, 98, 46, 99, 111>> (* a@b.co *),
   <<12300, 12488, 12520, 12479, 26666, 24335, 20250, 31038, 12301>> (* 「トヨタ株式会社」 *), <<22770, 19978>> (* 売上 *), <<53, 48, 48, 48, 19975, 20870>> (* 5000万円 *), <<48, 51, 45, 49, 50, 51, 52, 45, 53, 54, 55, 56>> (* 03-1234-5678 *), <<56, 53, 37>> (* 85% *),
   <<12306, 49, 48, 48, 45, 48, 48, 48, 49, 26481, 20140, 37117, 28207, 21306, 49, 45, 49>> (* 〒100-0001東京都港区1-1 *)}

YearTexts == {<<50, 48, 50, 54>> (* 2026 *), <<50, 48, 50, 53>> (* 2025 *), <<50, 48, 50, 51>> (* 2023 *), <<50, 48, 50, 49>> (* 2021 *), <<50, 48, 50, 48>> (* 2020 *), <<49, 57, 57, 57>> (* 1999 *)}

DateTexts ==
  {before \o year \o <<24180>> (* 年 *) \o after :
     before \in {<<>> (*  *), <<24773, 22577>> (* 情報 *)}, year \in YearTexts, after \in {<<>> (*  *), <<51, 26376, 49, 53, 26085>> (* 3月15日 *)}}

Contents == {a \o b : a \in Fragments, b \in Fragments} \cup DateTexts

\* the rows of CompanyInfo the caller may pass; one lacks its title
RecordPool ==
  {[title |-> <<24773, 22577>> (* 情報 *), category |-> "financial",
    isConfidential |-> TRUE, isPublic |-> FALSE],
   [title |-> <<12488, 12520, 12479>> (* トヨタ *), category |-> "constructor",
    isConfidential |-> TRUE, isPublic |-> FALSE],
   [title |-> <<26666, 24335, 20250, 31038>> (* 株式会社 *), category |-> "other",
    isConfidential |-> TRUE, isPublic |-> FALSE],
   [title |-> <<30000, 20013>> (* 田中 *), category |-> "personnel",
    isConfidential |-> TRUE, isPublic |-> TRUE],
   [title |-> <<27096>> (* 様 *), category |-> "customer",
    isConfidential |-> FALSE, isPublic |-> FALSE],
   [category |-> "internal", isConfidential |-> TRUE, isPublic |-> FALSE]}

RecordLists == UNION {[1..n -> RecordPool] : n \in 0..MaxRecords}

\* what new Date().getFullYear() may return
Years == {2025, 2026}

(***************************************************************************)
(* The state: one call of anonymize and where it stands.                   *)
(*   pc                 idle, or the statement the call is at              *)
(*   content            the first argument                                 *)
(*   companyInfo        the second argument                                *)
(*   anonymizedContent  the running text (line 60)                         *)
(*   i                  the index of the next record of the loop, line 63  *)
(*   k                  the index of the next rule of the loop, line 75    *)
(*   currentYear        the year generalizeDates read (line 127)           *)
(*   origin             for each character of anonymizedContent, the index *)
(*                      of the standing rule whose replacement wrote it,   *)
(*                      0 if none did; kept while the rules run            *)
(*   argument           the text obscureNumbers (line 84) or, after it,    *)
(*                      generalizeDates (line 87) was called with          *)
(***************************************************************************)
VARIABLES pc, content, companyInfo, anonymizedContent, i, k, currentYear, origin,
          argument

anonymizeVars ==
  <<pc, content, companyInfo, anonymizedContent, i, k, currentYear, origin,
    argument>>

(***************************************************************************)
(* The state of the two other public methods: one call of                  *)
(* determineAnonymizationLevel or generateAnonymizationReport.             *)
(*   invocation   the method called, its arguments and, computed by the    *)
(*                call, the score (line 163) and what the call returns;    *)
(*                [method |-> "none"] while no call is under way           *)
(***************************************************************************)
VARIABLES invocation

reportVars == <<invocation>>

(***************************************************************************)
(* The state of several callers of one AnonymizationService.               *)
(*   frames      for each caller, the call it has under way: the method,   *)
(*               the statement it is at, its arguments, its locals and,    *)
(*               once it has returned, its result; [method |-> "none"]     *)
(*               while the caller has no call under way                    *)
(*   texts       the running texts of the calls of anonymize (line 60),    *)
(*               by the place each is kept in                              *)
(*   records     for each caller, the list it passes as companyInfo        *)
(*   lastIndex   for each rule, the lastIndex of its pattern: all that     *)
(*               a call can write of the rule table                        *)
(***************************************************************************)
VARIABLES frames, texts, records, lastIndex

sharedVars == <<frames, texts, records, lastIndex>>

(***************************************************************************)
(* The state of a RewriteAgent.                                            *)
(*   process     the call of processArticle under way: the statement it    *)
(*               is at and its locals; [at |-> "idle"] between calls       *)
(*   prisma      the tables the agent reads and writes: article by id,     *)
(*               rewriteHistory and rewriteTask in the order of creation   *)
(*   calls       the calls the call of processArticle has made so far, in  *)
(*               order, each with its text argument and what it returned   *)
(***************************************************************************)
VARIABLES process, prisma, calls

agentVars == <<process, prisma, calls>>

(***************************************************************************)
(* The state of a call of RewriteAgent.processAllArticles.                 *)
(*   batch       the call under way: the statement it is at and its        *)
(*               locals; [at |-> "idle"] between calls                     *)
(*   events      what the call has done so far, in order: the updates of   *)
(*               the performance data, the start and the end of each call  *)
(*               of processArticle, the delays, the messages to Slack      *)
(***************************************************************************)
VARIABLES batch, events

batchVars == <<batch, events>>

(***************************************************************************)
(* The state of the scheduler (unnamed/part_001).                          *)
(*   agent       the variable of the module: 0 for null, else the number   *)
(*               of a RewriteAgent                                         *)
(*   agents      the RewriteAgents made so far, by number: how far the     *)
(*               call of processAllArticles on each has come, and how      *)
(*               often cleanup has been called on it                       *)
(*   handlers    the calls under way of the cron callback, of              *)
(*               runRewriteAgent and of the SIGINT handler                 *)
(*   exited      process.exit has been called                              *)
(***************************************************************************)
VARIABLES agent, agents, handlers, exited

schedulerVars == <<agent, agents, handlers, exited>>

\* the callers of the one instance
Callers == {1, 2}

\* the state outside the one call of anonymize
outside == <<reportVars, sharedVars, agentVars, batchVars, schedulerVars>>

vars == <<anonymizeVars, outside>>

\* the state outside a call of the two other public methods
outsideReport == <<anonymizeVars, sharedVars, agentVars, batchVars, schedulerVars>>

\* the state outside the callers of the one instance
outsideShared == <<anonymizeVars, reportVars, agentVars, batchVars, schedulerVars>>

\* the state outside the RewriteAgent
outsideAgent == <<anonymizeVars, reportVars, sharedVars, batchVars, schedulerVars>>

\* the state outside a RewriteAgent and its call of processAllArticles
outsideBatch == <<anonymizeVars, reportVars, sharedVars, schedulerVars>>

\* the state outside the scheduler
outsideScheduler == <<anonymizeVars, reportVars, sharedVars, agentVars, batchVars>>

\* line 27: a day in hours, the unit of the clock of the model
Day == 24

\* lines 26 and 50: Date.now()
Now == 400 * Day

\* the rows of the article table: one that meets the conditions of
\* shouldRewrite and one that ranks too high to
Articles ==
  [id \in {1, 2} |->
     [id |-> id,
      title |-> IF id = 1 THEN <<26087, 38988>> (* 旧題 *) ELSE <<20182, 38988>> (* 他題 *),
      content |-> IF id = 1 THEN <<26412, 25991>> (* 本文 *) ELSE <<20182, 25991>> (* 他文 *),
      keywords |-> <<107>> (* k *),
      url |-> IF id = 1 THEN <<47, 97>> (* /a *) ELSE <<47, 98>> (* /b *),
      publishedAt |-> 100 * Day,
      currentRanking |-> IF id = 1 THEN 5 ELSE 1,
      impressions |-> 2000,
      ctr |-> 50,
      rewriteCount |-> 0]]

InitOutside ==
  /\ invocation = [method |-> "none"]
  /\ frames = [c \in Callers |-> [method |-> "none"]]
  /\ texts = [c \in Callers |-> <<>>]
  /\ records = [c \in Callers |-> <<>>]
  /\ lastIndex = [key \in {"companyName", "personName", "email", "phone",
                            "specificNumbers", "address", "productName"} |-> 0]
  /\ process = [at |-> "idle"]
  /\ prisma = [article |-> Articles, rewriteHistory |-> <<>>, rewriteTask |-> <<>>]
  /\ calls = <<>>
  /\ batch = [at |-> "idle"]
  /\ events = <<>>
  /\ agent = 0
  /\ agents = <<>>
  /\ handlers = [h \in {"cron", "runRewriteAgent", "SIGINT"} |-> [at |-> "idle"]]
  /\ exited = FALSE

Zeros(text) == [j \in 1..Len(text) |-> 0]

Init ==
  /\ pc = "idle"
  /\ content = <<>>
  /\ companyInfo = <<>>
  /\ anonymizedContent = <<>>
  /\ i = 0
  /\ k = 0
  /\ currentYear = 0
  /\ origin = <<>>
  /\ argument = <<>>
  /\ InitOutside

\* lines 59-60: the call
anonymize(c, infos) ==
  /\ pc = "idle"
  /\ content' = c
  /\ companyInfo' = infos
  /\ anonymizedContent' = c
  /\ i' = 1
  /\ pc' = "records"
  /\ UNCHANGED <<k, currentYear, origin, argument>>
  /\ UNCHANGED outside

\* lines 63-72: one iteration of the loop over companyInfo; escapeRegex of
\* a missing title throws a TypeError (str.replace of undefined)
RedactNext ==
  /\ pc = "records"
  /\ i <= Len(companyInfo)
  /\ LET info == companyInfo[i]
     IN  IF Eligible(info)
         THEN IF "title" \in DOMAIN info
              THEN /\ anonymizedContent' = RedactRecord(anonymizedContent, info)
                   /\ i' = i + 1
                   /\ pc' = pc
              ELSE /\ pc' = "threw"
                   /\ UNCHANGED <<anonymizedContent, i>>
         ELSE /\ i' = i + 1
              /\ UNCHANGED <<anonymizedContent, pc>>
  /\ UNCHANGED <<content, companyInfo, k, currentYear, origin, argument>>
  /\ UNCHANGED outside

\* line 75: the loop over companyInfo is over, the loop over the rules starts
StartRules ==
  /\ pc = "records"
  /\ i > Len(companyInfo)
  /\ pc' = "rules"
  /\ k' = 1
  /\ origin' = Zeros(anonymizedContent)
  /\ UNCHANGED <<content, companyInfo, anonymizedContent, i, currentYear, argument>>
  /\ UNCHANGED outside

\* lines 75-81: one iteration of the loop over the rules
ApplyNextRule ==
  /\ pc = "rules"
  /\ k <= Len(RuleKeys)
  /\ LET rule == anonymizationRules[RuleKeys[k]]
         spans == Matches(rule.pattern, anonymizedContent)
         after == ApplyRule(anonymizedContent, RuleKeys[k])
         marks == [m \in 1..Len(spans) |->
                     [j \in 1..Len(ReplaceValueFor(rule.replacement,
                                     Matched(anonymizedContent, spans[m]))) |-> k]]
     IN  /\ anonymizedContent' = after
         /\ origin' = Splice(origin, spans, marks, 1, 0)
  /\ k' = k + 1
  /\ pc' = IF k = Len(RuleKeys) THEN "obscureAmounts" ELSE pc
  /\ UNCHANGED <<content, companyInfo, i, currentYear, argument>>
  /\ UNCHANGED outside

\* line 84, obscureNumbers: lines 95-100
ObscureAmounts ==
  /\ pc = "obscureAmounts"
  /\ anonymizedContent' = obscureAmounts(anonymizedContent)
  /\ pc' = "obscurePercents"
  /\ origin' = <<>>
  /\ argument' = anonymizedContent
  /\ UNCHANGED <<content, companyInfo, i, k, currentYear>>
  /\ UNCHANGED outside

\* obscureNumbers: lines 103-112
ObscurePercents ==
  /\ pc = "obscurePercents"
  /\ anonymizedContent' = obscurePercents(anonymizedContent)
  /\ pc' = "truncateDates"
  /\ UNCHANGED <<content, companyInfo, i, k, currentYear, origin, argument>>
  /\ UNCHANGED outside

\* line 87, generalizeDates: lines 118-124
TruncateDates ==
  /\ pc = "truncateDates"
  /\ anonymizedContent' = truncateDates(anonymizedContent)
  /\ pc' = "relativeYears"
  /\ argument' = anonymizedContent
  /\ UNCHANGED <<content, companyInfo, i, k, currentYear, origin>>
  /\ UNCHANGED outside

\* generalizeDates: lines 127-138, with the year the clock gives
RelativeYears(year) ==
  /\ pc = "relativeYears"
  /\ currentYear' = year
  /\ anonymizedContent' = relativeYears(anonymizedContent, year)
  /\ pc' = "done"
  /\ UNCHANGED <<content, companyInfo, i, k, origin, argument>>
  /\ UNCHANGED outside

\* line 89: anonymizedContent is returned, and the call is over
Return ==
  /\ pc = "done"
  /\ pc' = "idle"
  /\ content' = <<>>
  /\ companyInfo' = <<>>
  /\ anonymizedContent' = <<>>
  /\ i' = 0
  /\ k' = 0
  /\ currentYear' = 0
  /\ origin' = <<>>
  /\ argument' = <<>>
  /\ UNCHANGED outside

\* the TypeError leaves anonymize: the promise is rejected
Reject ==
  /\ pc = "threw"
  /\ pc' = "idle"
  /\ content' = <<>>
  /\ companyInfo' = <<>>
  /\ anonymizedContent' = <<>>
  /\ i' = 0
  /\ k' = 0
  /\ currentYear' = 0
  /\ origin' = <<>>
  /\ argument' = <<>>
  /\ UNCHANGED outside

Next ==
  \/ \E c \in Contents, infos \in RecordLists : anonymize(c, infos)
  \/ RedactNext
  \/ StartRules
  \/ ApplyNextRule
  \/ ObscureAmounts
  \/ ObscurePercents
  \/ TruncateDates
  \/ \E year \in Years : RelativeYears(year)
  \/ Return
  \/ Reject

Spec == Init /\ [][Next]_vars

(***************************************************************************)
(* The claims.                                                             *)
(***************************************************************************)
\* the eligibility the data model states: isConfidential = true AND
\* isPublic = false
ClaimEligible(info) == info.isConfidential = TRUE /\ info.isPublic = FALSE

HasTitle(info) == "title" \in DOMAIN info

\* C1: when anonymize has returned, the title of no record with
\* isConfidential = true and isPublic = false occurs in the returned text.
C1_PurgeComplete ==
  pc = "done" =>
    \A j \in 1..Len(companyInfo) :
      ClaimEligible(companyInfo[j]) /\ HasTitle(companyInfo[j])
        => ~Includes(anonymizedContent, companyInfo[j].title)

\* C2: anonymize returns for a record list what it returns for the list
\* without the records that have isPublic = true or isConfidential = false.
C2_IneligibleIgnored ==
  pc = "done" =>
    anonymizedContent
      = Anonymized(content, SelectSeq(companyInfo, ClaimEligible), currentYear)

\* a call has returned whose list holds a public, confidential record, the
\* title of which the content holds
C2_Witness ==
  /\ pc = "done"
  /\ \E j \in 1..Len(companyInfo) :
       /\ companyInfo[j].isPublic /\ companyInfo[j].isConfidential
       /\ HasTitle(companyInfo[j])
       /\ Includes(content, companyInfo[j].title)
       /\ Includes(anonymizedContent, companyInfo[j].title)

\* C3: the text anonymize returns holds no match of any of the 7 standing
\* rules.
C3_NoStandingMatch ==
  pc = "done" =>
    \A j \in 1..Len(RuleKeys) :
      Matches(anonymizationRules[RuleKeys[j]].pattern, anonymizedContent) = <<>>

\* C4: no match of a standing rule holds a character that the replacement
\* of a rule earlier in the table wrote in the same call.
C4_RuleIndependence ==
  (pc = "rules" /\ k <= Len(RuleKeys)) =>
    LET spans == Matches(anonymizationRules[RuleKeys[k]].pattern, anonymizedContent)
    IN  \A m \in 1..Len(spans) :
          \A j \in (spans[m][1] + 1)..spans[m][2] : origin[j] = 0

ClaimLabel(category) ==
  IF category \in {"financial", "strategic", "personnel", "technical",
                   "customer", "partner", "internal"}
  THEN replacements[category]
  ELSE <<38750, 20844, 38283, 24773, 22577>> (* 非公開情報 *)

\* text with each occurrence of title, left to right, replaced by label
ClaimRedact(text, title, label) ==
  LET spans == Matches(Str(title), text)
  IN  Splice(text, spans, [m \in 1..Len(spans) |-> label], 1, 0)

\* C6: the loop replaces each occurrence of the title of an eligible record
\* by the label the table gives its category, and by 非公開情報 for a category
\* that is none of the 7.
C6_CategoryLabel ==
  [][(/\ pc = "records"
      /\ i <= Len(companyInfo)
      /\ ClaimEligible(companyInfo[i])
      /\ HasTitle(companyInfo[i]))
       => anonymizedContent'
            = ClaimRedact(anonymizedContent, companyInfo[i].title,
                          ClaimLabel(companyInfo[i].category))]_vars

\* C7: anonymize raises for no input, a record that lacks its title
\* included.
C7_NeverThrows == pc # "threw"

\* YYYY年M月D日, YYYY年M月 and YYYY年 as the claims write them
ClaimFullDate ==
  Cat(<<Rep(Cls(Digit), 4, 4), Chr(24180 (* 年 *)), Rep(Cls(Digit), 1, 2), Chr(26376 (* 月 *)),
        Rep(Cls(Digit), 1, 2), Chr(26085 (* 日 *))>>)

ClaimYearMonth ==
  Cat(<<Rep(Cls(Digit), 4, 4), Chr(24180 (* 年 *)), Rep(Cls(Digit), 1, 2), Chr(26376 (* 月 *))>>)

ClaimYearToken == Cat(<<Rep(Cls(Digit), 4, 4), Chr(24180 (* 年 *))>>)

\* C8: for every full date YYYY年M月D日 of its argument, the text
\* generalizeDates returns holds YYYY年M月, with the same year and month, and
\* no longer the full date.
C8_FullDateTruncated ==
  pc = "done" =>
    LET spans == Matches(ClaimFullDate, argument)
    IN  \A m \in 1..Len(spans) :
          LET date == Matched(argument, spans[m])
              yearMonth == Matched(date, Matches(ClaimYearMonth, date)[1])
          IN  /\ Includes(anonymizedContent, yearMonth)
              /\ ~Includes(anonymizedContent, date)

\* the label the claim gives a difference d >= 0
ClaimYearLabel(d) ==
  CASE d = 0 -> <<20170, 24180>> (* 今年 *)
    [] d = 1 -> <<26152, 24180>> (* 昨年 *)
    [] d = 2 -> <<19968, 26152, 24180>> (* 一昨年 *)
    [] d \in 3..5 -> NumberToString(d) \o <<24180, 21069>> (* 年前 *)
    [] d > 5 -> <<25968, 24180, 21069>> (* 数年前 *)

\* text with each year token replaced by the label of year - YYYY
ClaimRelative(text, token, year) ==
  LET spans == Matches(token, text)
  IN  Splice(text, spans,
             [m \in 1..Len(spans) |->
                ClaimYearLabel(year - parseInt(Matched(text, spans[m])))],
             1, 0)

NoLaterYear(text, token, year) ==
  LET spans == Matches(token, text)
  IN  \A m \in 1..Len(spans) : parseInt(Matched(text, spans[m])) <= year

\* C9 as claimed: the second pass of generalizeDates replaces every year
\* token YYYY年, of any four digits, by the label of d = current year - YYYY
\* (0 今年, 1 昨年, 2 一昨年, 3..5 d年前, more 数年前).
C9_EveryYearToken ==
  [][(pc = "relativeYears" /\ NoLaterYear(anonymizedContent, ClaimYearToken, currentYear'))
       => anonymizedContent'
            = ClaimRelative(anonymizedContent, ClaimYearToken, currentYear')]_vars

\* 20YY年
ClaimYearToken20 ==
  Cat(<<Chr(50 (* 2 *)), Chr(48 (* 0 *)), Rep(Cls(Digit), 2, 2), Chr(24180 (* 年 *))>>)

\* C9 as amended: the second pass of generalizeDates replaces every year
\* token 20YY年 (a year 2000 to 2099, a month after it or not) by the label
\* of d = current year - 20YY (0 今年, 1 昨年, 2 一昨年, 3..5 d年前, more 数年前);
\* a year token of another century stays.
C9_Year20Token ==
  [][(pc = "relativeYears" /\ NoLaterYear(anonymizedContent, ClaimYearToken20, currentYear'))
       => anonymizedContent'
            = ClaimRelative(anonymizedContent, ClaimYearToken20, currentYear')]_vars

\* generalizeDates has returned, in 2026, for a text that holds 2021年
C9_Witness ==
  /\ pc = "done"
  /\ currentYear = 2026
  /\ Includes(argument, <<50, 48, 50, 49, 24180>> (* 2021年 *))
  /\ Includes(anonymizedContent, <<53, 24180, 21069>> (* 5年前 *))

\* C10 as claimed: in 2025 generalizeDates maps 2023年 to 2年前 and 2025年 to
\* 今年.
C10_Example2025 ==
  (pc = "done" /\ currentYear = 2025) =>
    /\ argument = <<50, 48, 50, 51, 24180>> (* 2023年 *) => anonymizedContent = <<50, 24180, 21069>> (* 2年前 *)
    /\ argument = <<50, 48, 50, 53, 24180>> (* 2025年 *) => anonymizedContent = <<20170, 24180>> (* 今年 *)

\* C10 as amended: in 2025 generalizeDates maps 2023年 to 一昨年 and 2025年
\* to 今年.
C10_Example2025Amended ==
  (pc = "done" /\ currentYear = 2025) =>
    /\ argument = <<50, 48, 50, 51, 24180>> (* 2023年 *) => anonymizedContent = <<19968, 26152, 24180>> (* 一昨年 *)
    /\ argument = <<50, 48, 50, 53, 24180>> (* 2025年 *) => anonymizedContent = <<20170, 24180>> (* 今年 *)

\* generalizeDates has returned, in 2025, for the text 2023年
C10_Witness ==
  /\ pc = "done"
  /\ currentYear = 2025
  /\ argument = <<50, 48, 50, 51, 24180>> (* 2023年 *)
  /\ anonymizedContent = <<19968, 26152, 24180>> (* 一昨年 *)

(***************************************************************************)
(* obscureNumbers (lines 93-113): anonymize called with amounts and        *)
(* percentages, and no records.                                            *)
(***************************************************************************)
\* the amounts, in 万円, of the texts 'a万円'
Amounts == {1, 500, 999, 1000, 1001, 9999, 10000, 10001, 12345}

AmountText(a) == NatToString(a) \o <<19975, 20870>> (* 万円 *)

AmountTexts ==
  {AmountText(a) : a \in Amounts}
    \cup {<<48, 57, 57, 57, 19975, 20870>> (* 0999万円 *), <<48, 49, 48, 48, 48, 19975, 20870>> (* 01000万円 *), <<49, 44, 48, 48, 48, 19975, 20870>> (* 1,000万円 *), <<53, 48, 48, 48, 19975, 20870, 56, 53, 37>> (* 5000万円85% *)}

PercentTexts ==
  {v \o d \o <<37>> (* % *) :
     v \in {<<53>> (* 5 *), <<48, 53>> (* 05 *), <<49, 48>> (* 10 *), <<50, 57>> (* 29 *), <<51, 48>> (* 30 *), <<52, 57>> (* 49 *), <<53, 48>> (* 50 *), <<55, 57>> (* 79 *), <<56, 48>> (* 80 *), <<49, 48, 48>> (* 100 *), <<49, 50, 51, 52>> (* 1234 *)},
     d \in {<<>> (*  *), <<46, 53>> (* .5 *)}}

NumberTexts == AmountTexts \cup PercentTexts

NextNumbers ==
  \/ \E c \in NumberTexts : anonymize(c, <<>>)
  \/ StartRules
  \/ ApplyNextRule
  \/ ObscureAmounts
  \/ ObscurePercents
  \/ TruncateDates
  \/ \E year \in Years : RelativeYears(year)
  \/ Return

SpecNumbers == Init /\ [][NextNumbers]_vars

\* a number of 4 or more digits with 万円 right after it
ClaimAmountToken == Cat(<<Rep(Cls(Digit), 4, -1), Str(<<19975, 20870>> (* 万円 *))>>)

\* the band the claim gives such a number
ClaimAmountBand(token) ==
  LET value == parseInt(token)
  IN  CASE value >= 10000 -> <<25968, 20740, 20870>> (* 数億円 *)
        [] value >= 1000 /\ value < 10000 -> <<25968, 21315, 19975, 20870>> (* 数千万円 *)
        [] value < 1000 -> token

ClaimBandAmounts(text) ==
  LET spans == Matches(ClaimAmountToken, text)
  IN  Splice(text, spans,
             [m \in 1..Len(spans) |-> ClaimAmountBand(Matched(text, spans[m]))],
             1, 0)

\* C11: the first pass of obscureNumbers replaces every number of 4 or more
\* digits that 万円 follows by 数億円 when its value is >= 10000, by 数千万円
\* when it is >= 1000, and leaves it otherwise; a number of fewer than 4
\* digits before 万円 stays.
C11_AmountBanding ==
  [][pc = "obscureAmounts"
       => anonymizedContent' = ClaimBandAmounts(anonymizedContent)]_vars

\* obscureNumbers has banded 10000万円
C11_Witness ==
  /\ pc = "obscurePercents"
  /\ argument = <<49, 48, 48, 48, 48, 19975, 20870>> (* 10000万円 *)
  /\ anonymizedContent = <<25968, 20740, 20870>> (* 数億円 *)

\* the magnitude, in 万円, a text of obscureNumbers denotes: the floor of
\* its band, or the amount left as it was
ClaimMagnitude(text) ==
  IF text = <<25968, 20740, 20870>> (* 数億円 *) THEN 10000
  ELSE IF text = <<25968, 21315, 19975, 20870>> (* 数千万円 *) THEN 1000
  ELSE parseInt(text)

\* C12: for amounts a1 < a2 written a1万円 and a2万円, what obscureNumbers
\* returns for a2 denotes no smaller magnitude than what it returns for a1
\* (an amount below 1000 left as it is < 数千万円 < 数億円).
C12_BandingMonotone ==
  \A a2 \in Amounts :
    (pc = "truncateDates" /\ argument = AmountText(a2)) =>
      \A a1 \in Amounts :
        a1 < a2 => ClaimMagnitude(obscureNumbers(AmountText(a1)))
                     <= ClaimMagnitude(anonymizedContent)

\* obscureNumbers has returned 数億円 for 10000万円, and returns 数千万円 for
\* 9999万円
C12_Witness ==
  /\ pc = "truncateDates"
  /\ argument = AmountText(10000)
  /\ anonymizedContent = <<25968, 20740, 20870>> (* 数億円 *)
  /\ obscureNumbers(AmountText(9999)) = <<25968, 21315, 19975, 20870>> (* 数千万円 *)

\* a number of 2 or 3 digits, a decimal part after it or not, with % right
\* after it
ClaimPercentToken ==
  Cat(<<Rep(Cls(Digit), 2, 3), Opt(Cat(<<Chr(46 (* . *)), Plus(Cls(Digit))>>)), Chr(37 (* % *))>>)

\* the band the claim gives the integer part v
ClaimPercentBand(token) ==
  LET v == parseInt(token)
  IN  CASE v >= 80 -> <<56, 48, 37, 20197, 19978>> (* 80%以上 *)
        [] v >= 50 /\ v < 80 -> <<53, 48, 37, 20197, 19978>> (* 50%以上 *)
        [] v >= 30 /\ v < 50 -> <<32004, 51, 48, 45, 53, 48, 37>> (* 約30-50% *)
        [] v >= 10 /\ v < 30 -> <<49, 48, 37, 20197, 19978>> (* 10%以上 *)
        [] v < 10 -> <<49, 48, 37, 26410, 28288>> (* 10%未満 *)

ClaimBandPercents(text) ==
  LET spans == Matches(ClaimPercentToken, text)
  IN  Splice(text, spans,
             [m \in 1..Len(spans) |-> ClaimPercentBand(Matched(text, spans[m]))],
             1, 0)

\* C13: the second pass of obscureNumbers replaces every number of 2 or 3
\* digits (a decimal part after it or not) that % follows by the one label
\* of its integer part v: v >= 80 80%以上, 50 <= v < 80 50%以上, 30 <= v < 50
\* 約30-50%, 10 <= v < 30 10%以上, v < 10 10%未満; the decimal part changes
\* no band.
C13_PercentBanding ==
  [][pc = "obscurePercents"
       => anonymizedContent' = ClaimBandPercents(anonymizedContent)]_vars

\* obscureNumbers has banded 49.5% by its integer part
C13_Witness ==
  /\ pc = "truncateDates"
  /\ argument = <<52, 57, 46, 53, 37>> (* 49.5% *)
  /\ anonymizedContent = <<32004, 51, 48, 45, 53, 48, 37>> (* 約30-50% *)

\* C14: obscureNumbers maps the percentage 5%, which is below 10, to 10%未満.
C14_FivePercent ==
  (pc = "truncateDates" /\ argument = <<53, 37>> (* 5% *)) => anonymizedContent = <<49, 48, 37, 26410, 28288>> (* 10%未満 *)

(***************************************************************************)
(* determineAnonymizationLevel (lines 162-192) and                         *)
(* generateAnonymizationReport (lines 195-217).                            *)
(***************************************************************************)
\* the list of lines 166-171 without its last two entries
highRiskKeywordsTwelve ==
  <<<<22770, 19978>> (* 売上 *), <<21033, 30410>> (* 利益 *), <<21454, 30410>> (* 収益 *), <<25613, 22833>> (* 損失 *), <<25126, 30053>> (* 戦略 *), <<35336, 30011>> (* 計画 *), <<38283, 30330, 20013>> (* 開発中 *), <<26410, 20844, 38283>> (* 未公開 *),
    <<39015, 23458, 12522, 12473, 12488>> (* 顧客リスト *), <<21462, 24341, 20808>> (* 取引先 *), <<22865, 32004>> (* 契約 *), <<29305, 35377>> (* 特許 *)>>

\* lines 166-171
highRiskKeywords ==
  <<<<22770, 19978>> (* 売上 *), <<21033, 30410>> (* 利益 *), <<21454, 30410>> (* 収益 *), <<25613, 22833>> (* 損失 *), <<25126, 30053>> (* 戦略 *), <<35336, 30011>> (* 計画 *), <<38283, 30330, 20013>> (* 開発中 *), <<26410, 20844, 38283>> (* 未公開 *),
    <<39015, 23458, 12522, 12473, 12488>> (* 顧客リスト *), <<21462, 24341, 20808>> (* 取引先 *), <<22865, 32004>> (* 契約 *), <<29305, 35377>> (* 特許 *), <<25216, 34899>> (* 技術 *), <<12494, 12454, 12495, 12454>> (* ノウハウ *)>>

\* lines 173-177: the loop adds 10 for each keyword the content includes
KeywordScore(text) ==
  10 * Cardinality({j \in 1..Len(highRiskKeywords) : Includes(text, highRiskKeywords[j])})

\* /\d{4,}万円|\d+億円/
largeAmountPattern ==
  Alt(<<Cat(<<Rep(Cls(Digit), 4, -1), Str(<<19975, 20870>> (* 万円 *))>>),
        Cat(<<Plus(Cls(Digit)), Str(<<20740, 20870>> (* 億円 *))>>)>>)

\* /\d+%/
anyPercentPattern == Cat(<<Plus(Cls(Digit)), Chr(37 (* % *))>>)

\* [^」]: every code unit but 」
NotCloseBracket == 0..65535 \ {12301 (* 」 *)}

\* /「[^」]+」/g
properNounPattern == Cat(<<Chr(12300 (* 「 *)), Plus(Cls(NotCloseBracket)), Chr(12301 (* 」 *))>>)

\* lines 180-182
NumberScore(text) ==
  (IF Test(largeAmountPattern, text) THEN 20 ELSE 0)
    + (IF Test(anyPercentPattern, text) THEN 10 ELSE 0)
    + (IF Test(fullDatePattern, text) THEN 5 ELSE 0)

\* lines 185-186: match returns null, which is falsy, when nothing matches
ProperNounScore(text) == Len(Matches(properNounPattern, text)) * 5

\* lines 189-191 with > 50 for >= 50
LevelOfAboveFifty(score) ==
  IF score > 50 THEN "high" ELSE IF score >= 20 THEN "medium" ELSE "low"

\* lines 189-191
LevelOf(score) ==
  IF score >= 50 THEN "high" ELSE IF score >= 20 THEN "medium" ELSE "low"

\* the keys of the rule table as text
KeyText ==
  [companyName |-> <<99, 111, 109, 112, 97, 110, 121, 78, 97, 109, 101>> (* companyName *), personName |-> <<112, 101, 114, 115, 111, 110, 78, 97, 109, 101>> (* personName *), email |-> <<101, 109, 97, 105, 108>> (* email *),
   phone |-> <<112, 104, 111, 110, 101>> (* phone *), specificNumbers |-> <<115, 112, 101, 99, 105, 102, 105, 99, 78, 117, 109, 98, 101, 114, 115>> (* specificNumbers *), address |-> <<97, 100, 100, 114, 101, 115, 115>> (* address *),
   productName |-> <<112, 114, 111, 100, 117, 99, 116, 78, 97, 109, 101>> (* productName *)]

\* the text line 205 looks for matches in, with anonymized for original
CountedInAnonymized(original, anonymized) == anonymized

\* the text line 205 looks for matches in
CountedIn(original, anonymized) == original

\* line 205: text.match(pattern) of a global pattern, <<>> for null
MatchAll(text, pattern) ==
  LET spans == Matches(pattern, text)
  IN  [m \in 1..Len(spans) |-> Matched(text, spans[m])]

\* lines 206-209 with 1 added for a rule that matches
TallyOnePerRule(tally, key, matches) ==
  IF matches = <<>> THEN tally
  ELSE [changedCount |-> tally.changedCount + 1,
        removedInfo |->
          Append(tally.removedInfo,
                 KeyText[key] \o <<58, 32>> (* :  *) \o NumberToString(Len(matches)) \o <<20214>> (* 件 *))]

\* lines 206-209
Tally(tally, key, matches) ==
  IF matches = <<>> THEN tally
  ELSE [changedCount |-> tally.changedCount + Len(matches),
        removedInfo |->
          Append(tally.removedInfo,
                 KeyText[key] \o <<58, 32>> (* :  *) \o NumberToString(Len(matches)) \o <<20214>> (* 件 *))]

\* lines 204-210 from rule j on
RECURSIVE TallyFrom(_, _, _)
TallyFrom(text, j, tally) ==
  IF j > Len(RuleKeys) THEN tally
  ELSE TallyFrom(text, j + 1,
                 Tally(tally, RuleKeys[j],
                       MatchAll(text, anonymizationRules[RuleKeys[j]].pattern)))

\* lines 162-192 as a function of the content
Level(text) == LevelOf(KeywordScore(text) + NumberScore(text) + ProperNounScore(text))

\* lines 200-201
NoTally == [changedCount |-> 0, removedInfo |-> <<>>]

\* lines 195-217 as a function of the arguments
Report(original, anonymized) ==
  LET tally == TallyFrom(CountedIn(original, anonymized), 1, NoTally)
  IN  [changedCount |-> tally.changedCount,
       removedInfo |-> tally.removedInfo,
       anonymizationLevel |-> Level(original)]

\* the texts the two methods are called with
AllKeywords ==
  <<22770, 19978, 32, 21033, 30410, 32, 21454, 30410, 32, 25613, 22833, 32, 25126, 30053, 32, 35336, 30011, 32, 38283, 30330, 20013, 32, 26410, 20844, 38283, 32, 39015, 23458, 12522, 12473, 12488, 32, 21462, 24341, 20808, 32, 22865, 32004, 32, 29305, 35377, 32, 25216, 34899, 32, 12494, 12454, 12495, 12454>> (* 売上 利益 収益 損失 戦略 計画 開発中 未公開 顧客リスト 取引先 契約 特許 技術 ノウハウ *)

ReportTexts ==
  {<<22770, 19978, 12392, 22770, 19978>> (* 売上と売上 *), <<>> (*  *), <<22770, 19978>> (* 売上 *), <<22770, 19978, 49, 20740, 20870, 53, 48, 37, 12300, 97, 12301, 12300, 98, 12301>> (* 売上1億円50%「a」「b」 *), <<22770, 19978, 12300, 97, 12301, 49, 57, 57, 57, 24180, 51, 26376, 49, 53, 26085>> (* 売上「a」1999年3月15日 *), <<22770, 19978, 12300, 97, 12301, 50, 48, 50, 52, 24180, 51, 26376, 49, 53, 26085>> (* 売上「a」2024年3月15日 *),
   <<22770, 19978, 49, 50, 51, 52, 53, 19975, 20870>> (* 売上12345万円 *), <<22770, 19978, 21033, 30410, 21454, 30410, 25613, 22833, 25126, 30053>> (* 売上利益収益損失戦略 *), AllKeywords, <<97, 64, 98, 46, 99, 111, 32, 48, 51, 45, 49, 50, 51, 52, 45, 53, 54, 55, 56>> (* a@b.co 03-1234-5678 *), <<97, 64, 98, 46, 99, 111, 32, 99, 64, 100, 46, 99, 111>> (* a@b.co c@d.co *),
   <<30000, 20013, 26666, 24335, 20250, 31038, 12300, 12488, 12520, 12479, 12301>> (* 田中株式会社「トヨタ」 *), <<12300, 12301, 53, 48, 37>> (* 「」50% *), <<12306, 49, 48, 48, 45, 48, 48, 48, 49, 26481, 20140, 37117, 28207, 21306, 49, 45, 49, 32, 48, 51, 49, 50, 51, 52, 53, 54, 55, 56>> (* 〒100-0001東京都港区1-1 0312345678 *)}

AnonymizedTexts == {<<>> (*  *), <<99, 111, 110, 116, 97, 99, 116, 64, 101, 120, 97, 109, 112, 108, 101, 46, 99, 111, 109>> (* contact@example.com *), <<99, 111, 110, 116, 97, 99, 116, 64, 101, 120, 97, 109, 112, 108, 101, 46, 99, 111, 109, 32, 48, 88, 88, 45, 88, 88, 88, 88, 45, 88, 88, 88, 88>> (* contact@example.com 0XX-XXXX-XXXX *)}

\* line 162: the call
determineAnonymizationLevel(text) ==
  /\ invocation.method = "none"
  /\ invocation' =
       [method |-> "determineAnonymizationLevel", original |-> text,
        anonymized |-> <<>>, step |-> "keywords", score |-> 0,
        tally |-> NoTally, result |-> "none"]
  /\ UNCHANGED outsideReport

\* lines 195-201: the call
generateAnonymizationReport(original, anonymized) ==
  /\ invocation.method = "none"
  /\ invocation' =
       [method |-> "generateAnonymizationReport", original |-> original,
        anonymized |-> anonymized, step |-> "rules", score |-> 0,
        tally |-> NoTally, result |-> "none"]
  /\ UNCHANGED outsideReport

\* lines 204-210: the loop over the rules; line 215 then calls
\* determineAnonymizationLevel(original)
CountMatches ==
  /\ invocation.method = "generateAnonymizationReport"
  /\ invocation.step = "rules"
  /\ invocation' =
       [invocation EXCEPT
          !.tally = TallyFrom(CountedIn(invocation.original, invocation.anonymized),
                              1, NoTally),
          !.step = "keywords"]
  /\ UNCHANGED outsideReport

\* lines 163-177
CheckKeywords ==
  /\ invocation.method # "none"
  /\ invocation.step = "keywords"
  /\ invocation' =
       [invocation EXCEPT !.score = @ + KeywordScore(invocation.original),
                          !.step = "numbers"]
  /\ UNCHANGED outsideReport

\* lines 180-182
CheckNumbers ==
  /\ invocation.method # "none"
  /\ invocation.step = "numbers"
  /\ invocation' =
       [invocation EXCEPT !.score = @ + NumberScore(invocation.original),
                          !.step = "properNouns"]
  /\ UNCHANGED outsideReport

\* lines 185-186
CheckProperNouns ==
  /\ invocation.method # "none"
  /\ invocation.step = "properNouns"
  /\ invocation' =
       [invocation EXCEPT !.score = @ + ProperNounScore(invocation.original),
                          !.step = "level"]
  /\ UNCHANGED outsideReport

\* lines 189-191, and for the report lines 212-216
ReturnLevel ==
  /\ invocation.method # "none"
  /\ invocation.step = "level"
  /\ invocation' =
       [invocation EXCEPT
          !.result =
            IF invocation.method = "determineAnonymizationLevel"
            THEN LevelOf(invocation.score)
            ELSE [changedCount |-> invocation.tally.changedCount,
                  removedInfo |-> invocation.tally.removedInfo,
                  anonymizationLevel |-> LevelOf(invocation.score)],
          !.step = "returned"]
  /\ UNCHANGED outsideReport

\* the caller has the value
TakeResult ==
  /\ invocation.method # "none"
  /\ invocation.step = "returned"
  /\ invocation' = [method |-> "none"]
  /\ UNCHANGED outsideReport

NextReport ==
  \/ \E text \in ReportTexts : determineAnonymizationLevel(text)
  \/ \E original \in ReportTexts, anonymized \in AnonymizedTexts :
       generateAnonymizationReport(original, anonymized)
  \/ CountMatches
  \/ CheckKeywords
  \/ CheckNumbers
  \/ CheckProperNouns
  \/ ReturnLevel
  \/ TakeResult

SpecReport == Init /\ [][NextReport]_vars

\* the score the claim states, with date for the full date it counts
ClaimScore(text, date) ==
  10 * Cardinality({j \in 1..Len(highRiskKeywords) : Includes(text, highRiskKeywords[j])})
    + (IF Test(Alt(<<Cat(<<Rep(Cls(Digit), 4, -1), Str(<<19975, 20870>> (* 万円 *))>>),
                     Cat(<<Plus(Cls(Digit)), Str(<<20740, 20870>> (* 億円 *))>>)>>), text)
       THEN 20 ELSE 0)
    + (IF Test(Cat(<<Plus(Cls(Digit)), Chr(37 (* % *))>>), text) THEN 10 ELSE 0)
    + (IF Test(date, text) THEN 5 ELSE 0)
    + 5 * Len(Matches(Cat(<<Chr(12300 (* 「 *)), Plus(Cls(0..65535 \ {12301 (* 」 *)})), Chr(12301 (* 」 *))>>), text))

ClaimLevel(score) ==
  CASE score >= 50 -> "high"
    [] score >= 20 /\ score < 50 -> "medium"
    [] score < 20 -> "low"

\* C15 as claimed: determineAnonymizationLevel(text) returns high for a
\* score >= 50, medium for a score >= 20 and low otherwise, the score being
\* 10 for each listed keyword the text contains, + 20 for a number of 4 or
\* more digits before 万円 or a number before 億円, + 10 for a number before
\* %, + 5 for a full date YYYY年M月D日 of any year, + 5 for each 「...」 span.
C15_RiskScoring ==
  (invocation.method = "determineAnonymizationLevel" /\ invocation.step = "returned")
    => invocation.result = ClaimLevel(ClaimScore(invocation.original, ClaimFullDate))

\* 20YY年M月D日
ClaimFullDate20 ==
  Cat(<<Chr(50 (* 2 *)), Chr(48 (* 0 *)), Rep(Cls(Digit), 2, 2), Chr(24180 (* 年 *)), Rep(Cls(Digit), 1, 2),
        Chr(26376 (* 月 *)), Rep(Cls(Digit), 1, 2), Chr(26085 (* 日 *))>>)

\* C15 as amended: the same with + 5 only for a full date 20YY年M月D日, of a
\* year 2000 to 2099; the score the call computed is that score.
C15_RiskScoring20 ==
  (invocation.method = "determineAnonymizationLevel" /\ invocation.step = "returned")
    => /\ invocation.score = ClaimScore(invocation.original, ClaimFullDate20)
       /\ invocation.result = ClaimLevel(ClaimScore(invocation.original, ClaimFullDate20))

\* the call has returned high for 売上 + 1億円 + 50% + two bracketed names,
\* which score 50
C15_Witness ==
  /\ invocation.method = "determineAnonymizationLevel"
  /\ invocation.step = "returned"
  /\ invocation.original = <<22770, 19978, 49, 20740, 20870, 53, 48, 37, 12300, 97, 12301, 12300, 98, 12301>> (* 売上1億円50%「a」「b」 *)
  /\ invocation.score = 50
  /\ invocation.result = "high"

\* C16 as claimed: the scorer checks exactly 12 keywords, each adding 10 at
\* most once, so the keywords add at most 120 to the score.
C16_TwelveKeywords ==
  (invocation.method # "none" /\ invocation.step = "numbers")
    => /\ Len(highRiskKeywords) = 12
       /\ invocation.score <= 120

\* C16 as amended: the scorer checks exactly 14 keywords, each adding 10 at
\* most once, so the keywords add at most 140 to the score.
C16_FourteenKeywords ==
  (invocation.method # "none" /\ invocation.step = "numbers")
    => /\ Len(highRiskKeywords) = 14
       /\ Cardinality({highRiskKeywords[j] : j \in 1..Len(highRiskKeywords)}) = 14
       /\ invocation.score
            = 10 * Cardinality({w \in {highRiskKeywords[j] : j \in 1..Len(highRiskKeywords)} :
                                  Includes(invocation.original, w)})
       /\ invocation.score <= 140

\* the loop over the keywords has ended with 140 for a text that holds them
\* all
C16_Witness ==
  /\ invocation.method # "none"
  /\ invocation.step = "numbers"
  /\ invocation.original = AllKeywords
  /\ invocation.score = 140

\* the number of matches of the rule of a key in a text
ClaimCount(key, text) == Len(Matches(anonymizationRules[key].pattern, text))

RECURSIVE ClaimSum(_, _)
ClaimSum(text, j) ==
  IF j > Len(RuleKeys) THEN 0 ELSE ClaimCount(RuleKeys[j], text) + ClaimSum(text, j + 1)

\* '<ruleKey>: <n>件' for each rule with n >= 1, in the order of the table
ClaimEntries(text) ==
  LET all == [j \in 1..Len(RuleKeys) |->
                [key |-> RuleKeys[j], n |-> ClaimCount(RuleKeys[j], text)]]
      kept == SelectSeq(all, LAMBDA e : e.n >= 1)
  IN  [m \in 1..Len(kept) |->
         KeyText[kept[m].key] \o <<58, 32>> (* :  *) \o NatToString(kept[m].n) \o <<20214>> (* 件 *)]

\* C17: generateAnonymizationReport returns as changedCount the sum over
\* the 7 standing rules of the rule's number of matches in original, and as
\* removedInfo one entry '<ruleKey>: <n>件' for each rule with n >= 1
\* matches, in the order of the table, and none for the other rules.
C17_ReportAccounting ==
  (invocation.method = "generateAnonymizationReport" /\ invocation.step = "returned")
    => /\ invocation.result.changedCount = ClaimSum(invocation.original, 1)
       /\ invocation.result.removedInfo = ClaimEntries(invocation.original)

\* the report of a text with one email address and one phone number
C17_Witness ==
  /\ invocation.method = "generateAnonymizationReport"
  /\ invocation.step = "returned"
  /\ invocation.original = <<97, 64, 98, 46, 99, 111, 32, 48, 51, 45, 49, 50, 51, 52, 45, 53, 54, 55, 56>> (* a@b.co 03-1234-5678 *)
  /\ invocation.anonymized = <<99, 111, 110, 116, 97, 99, 116, 64, 101, 120, 97, 109, 112, 108, 101, 46, 99, 111, 109, 32, 48, 88, 88, 45, 88, 88, 88, 88, 45, 88, 88, 88, 88>> (* contact@example.com 0XX-XXXX-XXXX *)
  /\ invocation.result.changedCount = 2
  /\ invocation.result.removedInfo = <<<<101, 109, 97, 105, 108, 58, 32, 49, 20214>> (* email: 1件 *), <<112, 104, 111, 110, 101, 58, 32, 49, 20214>> (* phone: 1件 *)>>

\* C18: what generateAnonymizationReport(original, a1) returns is what
\* generateAnonymizationReport(original, a2) returns for every other
\* anonymized argument a2, and its level is that of
\* determineAnonymizationLevel(original).
C18_AnonymizedIgnored ==
  (invocation.method = "generateAnonymizationReport" /\ invocation.step = "returned")
    => /\ \A a2 \in AnonymizedTexts :
            invocation.result = Report(invocation.original, a2)
       /\ invocation.result.anonymizationLevel = Level(invocation.original)

\* a report that counts two matches has been returned for an empty
\* anonymized argument
C18_Witness ==
  /\ invocation.method = "generateAnonymizationReport"
  /\ invocation.step = "returned"
  /\ invocation.anonymized = <<>> (*  *)
  /\ invocation.result.changedCount = 2
  /\ invocation.result.anonymizationLevel = "low"

(***************************************************************************)
(* Several callers of one instance.  The calls are interleaved statement   *)
(* by statement, which holds every order the event loop can run them in    *)
(* (the body of anonymize holds no await: it runs in one turn).  replace   *)
(* and match of a global pattern set its lastIndex to 0 before they search *)
(* and leave it at 0.                                                      *)
(***************************************************************************)
\* one place for the running text of every call: a field of the instance
SlotOfInstance(c) == 1

\* line 60: anonymizedContent is a local of the call
Slot(c) == c

SharedContents == {<<97, 64, 98, 46, 99, 111>> (* a@b.co *), <<24773, 22577, 53, 48, 48, 48, 19975, 20870>> (* 情報5000万円 *), <<50, 48, 50, 51, 24180, 12300, 97, 12301>> (* 2023年「a」 *)}

SharedRecordLists ==
  {<<>>,
   <<[title |-> <<24773, 22577>> (* 情報 *), category |-> "financial",
      isConfidential |-> TRUE, isPublic |-> FALSE]>>}

Frame(method, at, c, a, infos) ==
  [method |-> method, at |-> at, content |-> c, anonymized |-> a,
   companyInfo |-> infos, k |-> 0, year |-> 0, result |-> <<>>]

\* lines 59-60: a caller calls anonymize
CallAnonymize(c, text, infos) ==
  /\ frames[c].method = "none"
  /\ frames' = [frames EXCEPT ![c] = Frame("anonymize", "records", text, <<>>, infos)]
  /\ records' = [records EXCEPT ![c] = infos]
  /\ texts' = [texts EXCEPT ![Slot(c)] = text]
  /\ UNCHANGED lastIndex
  /\ UNCHANGED outsideShared

\* lines 63-72
CallerRedacts(c) ==
  /\ frames[c].method = "anonymize"
  /\ frames[c].at = "records"
  /\ texts' = [texts EXCEPT ![Slot(c)] = RedactFrom(@, records[c], 1)]
  /\ frames' = [frames EXCEPT ![c].at = "rules", ![c].k = 1]
  /\ UNCHANGED <<records, lastIndex>>
  /\ UNCHANGED outsideShared

\* lines 75-81: one iteration
CallerAppliesRule(c) ==
  /\ frames[c].method = "anonymize"
  /\ frames[c].at = "rules"
  /\ LET key == RuleKeys[frames[c].k]
     IN  /\ texts' = [texts EXCEPT ![Slot(c)] = ApplyRule(@, key)]
         /\ lastIndex' = [lastIndex EXCEPT ![key] = 0]
  /\ frames' = [frames EXCEPT
                  ![c].k = @ + 1,
                  ![c].at = IF frames[c].k = Len(RuleKeys) THEN "obscureNumbers" ELSE @]
  /\ UNCHANGED records
  /\ UNCHANGED outsideShared

\* line 84
CallerObscuresNumbers(c) ==
  /\ frames[c].method = "anonymize"
  /\ frames[c].at = "obscureNumbers"
  /\ texts' = [texts EXCEPT ![Slot(c)] = obscureNumbers(@)]
  /\ frames' = [frames EXCEPT ![c].at = "generalizeDates"]
  /\ UNCHANGED <<records, lastIndex>>
  /\ UNCHANGED outsideShared

\* line 87
CallerGeneralizesDates(c, year) ==
  /\ frames[c].method = "anonymize"
  /\ frames[c].at = "generalizeDates"
  /\ texts' = [texts EXCEPT ![Slot(c)] = generalizeDates(@, year)]
  /\ frames' = [frames EXCEPT ![c].at = "return", ![c].year = year]
  /\ UNCHANGED <<records, lastIndex>>
  /\ UNCHANGED outsideShared

\* line 89
CallerReturns(c) ==
  /\ frames[c].method = "anonymize"
  /\ frames[c].at = "return"
  /\ frames' = [frames EXCEPT ![c].at = "returned", ![c].result = texts[Slot(c)]]
  /\ UNCHANGED <<texts, records, lastIndex>>
  /\ UNCHANGED outsideShared

\* line 162: a caller calls determineAnonymizationLevel
CallDetermineLevel(c, text) ==
  /\ frames[c].method = "none"
  /\ frames' = [frames EXCEPT
                  ![c] = Frame("determineAnonymizationLevel", "level", text, <<>>, <<>>)]
  /\ UNCHANGED <<texts, records, lastIndex>>
  /\ UNCHANGED outsideShared

\* line 195: a caller calls generateAnonymizationReport
CallReport(c, original, anonymized) ==
  /\ frames[c].method = "none"
  /\ frames' = [frames EXCEPT
                  ![c] = Frame("generateAnonymizationReport", "rules", original,
                               anonymized, <<>>)]
  /\ UNCHANGED <<texts, records, lastIndex>>
  /\ UNCHANGED outsideShared

\* lines 204-210: match of each pattern of the table
CallerCountsMatches(c) ==
  /\ frames[c].method = "generateAnonymizationReport"
  /\ frames[c].at = "rules"
  /\ frames' = [frames EXCEPT
                  ![c].at = "level",
                  ![c].result =
                    TallyFrom(CountedIn(frames[c].content, frames[c].anonymized),
                              1, NoTally)]
  /\ lastIndex' = [key \in DOMAIN lastIndex |-> 0]
  /\ UNCHANGED <<texts, records>>
  /\ UNCHANGED outsideShared

\* lines 163-191: the patterns of the scorer are made anew by each call
CallerScores(c) ==
  /\ frames[c].method \in {"determineAnonymizationLevel", "generateAnonymizationReport"}
  /\ frames[c].at = "level"
  /\ frames' = [frames EXCEPT
                  ![c].at = "returned",
                  ![c].result =
                    IF frames[c].method = "determineAnonymizationLevel"
                    THEN Level(frames[c].content)
                    ELSE [changedCount |-> frames[c].result.changedCount,
                          removedInfo |-> frames[c].result.removedInfo,
                          anonymizationLevel |-> Level(frames[c].content)]]
  /\ UNCHANGED <<texts, records, lastIndex>>
  /\ UNCHANGED outsideShared

\* the caller has the value
CallerTakes(c) ==
  /\ frames[c].method # "none"
  /\ frames[c].at = "returned"
  /\ frames' = [frames EXCEPT ![c] = [method |-> "none"]]
  /\ UNCHANGED <<texts, records, lastIndex>>
  /\ UNCHANGED outsideShared

NextShared ==
  \/ \E c \in Callers, text \in SharedContents, infos \in SharedRecordLists :
       CallAnonymize(c, text, infos)
  \/ \E c \in Callers : CallerRedacts(c)
  \/ \E c \in Callers : CallerAppliesRule(c)
  \/ \E c \in Callers : CallerObscuresNumbers(c)
  \/ \E c \in Callers, year \in Years : CallerGeneralizesDates(c, year)
  \/ \E c \in Callers : CallerReturns(c)
  \/ \E c \in Callers, text \in SharedContents : CallDetermineLevel(c, text)
  \/ \E c \in Callers, original \in SharedContents :
       CallReport(c, original, Anonymized(original, <<>>, 2026))
  \/ \E c \in Callers : CallerCountsMatches(c)
  \/ \E c \in Callers : CallerScores(c)
  \/ \E c \in Callers : CallerTakes(c)

SpecShared == Init /\ [][NextShared]_vars

\* what the call of a frame returns when it runs alone
ClaimAlone(frame) ==
  CASE frame.method = "anonymize" ->
         Anonymized(frame.content, frame.companyInfo, frame.year)
    [] frame.method = "determineAnonymizationLevel" -> Level(frame.content)
    [] frame.method = "generateAnonymizationReport" ->
         Report(frame.content, frame.anonymized)

\* C19: however the calls of several callers of one instance interleave,
\* each call returns what it returns when it runs alone, and the rule table
\* (the lastIndex of its patterns) and the record list of each caller are as
\* they were before the calls.
C19_CallsDoNotInterfere ==
  /\ \A c \in Callers :
       (frames[c].method # "none" /\ frames[c].at = "returned")
         => frames[c].result = ClaimAlone(frames[c])
  /\ \A c \in Callers :
       frames[c].method = "anonymize" => records[c] = frames[c].companyInfo
  /\ \A key \in DOMAIN lastIndex : lastIndex[key] = 0

\* a call of anonymize has returned a redacted text while a call of another
\* caller, made before it returned, is in the loop over the rules
C19_Witness ==
  /\ frames[1].method = "anonymize"
  /\ frames[1].at = "returned"
  /\ frames[1].content = <<24773, 22577, 53, 48, 48, 48, 19975, 20870>> (* 情報5000万円 *)
  /\ frames[1].result # frames[1].content
  /\ frames[2].method = "anonymize"
  /\ frames[2].at = "rules"
  /\ frames[2].k > 3
  /\ frames[2].content = <<97, 64, 98, 46, 99, 111>> (* a@b.co *)

(***************************************************************************)
(* RewriteAgent.processArticle, statement by statement.  What the          *)
(* collaborators answer is drawn from small sets: ClaudeService as it      *)
(* returns (rewriteContent rethrows its failure, the other methods return  *)
(* a fallback), a query or a write of the database as it resolves or       *)
(* rejects.                                                                *)
(***************************************************************************)
\* the rows the model lets the two tables of results hold together
MaxRows == 1

\* the order of the statements with anonymize after the links
FollowingLinksFirst(at) ==
  CASE at = "findUnique" -> "shouldRewrite"
    [] at = "shouldRewrite" -> "fetchCompanyInfo"
    [] at = "fetchCompanyInfo" -> "rewriteContent"
    [] at = "rewriteContent" -> "generateFAQ"
    [] at = "generateFAQ" -> "reviewContent"
    [] at = "reviewContent" -> "addInternalLinks"
    [] at = "addInternalLinks" -> "anonymize"
    [] at = "anonymize" -> "refineTitle"
    [] at = "refineTitle" -> "calculateQualityScore"
    [] at = "calculateQualityScore" -> "rewriteHistory.create"
    [] at = "rewriteHistory.create" -> "article.update"
    [] at = "article.update" -> "return"

\* lines 55-129 and 223-246: the statement after each statement of the try
\* block
Following(at) ==
  CASE at = "findUnique" -> "shouldRewrite"
    [] at = "shouldRewrite" -> "fetchCompanyInfo"
    [] at = "fetchCompanyInfo" -> "rewriteContent"
    [] at = "rewriteContent" -> "generateFAQ"
    [] at = "generateFAQ" -> "anonymize"
    [] at = "anonymize" -> "reviewContent"
    [] at = "reviewContent" -> "addInternalLinks"
    [] at = "addInternalLinks" -> "refineTitle"
    [] at = "refineTitle" -> "calculateQualityScore"
    [] at = "calculateQualityScore" -> "rewriteHistory.create"
    [] at = "rewriteHistory.create" -> "article.update"
    [] at = "article.update" -> "return"

\* lines 25-28
daysSinceUpdate(article, now) ==
  (now - (IF "lastUpdatedAt" \in DOMAIN article
          THEN article.lastUpdatedAt ELSE article.publishedAt)) \div Day

\* lines 23-46, the ctr in thousandths
shouldRewrite(article, now) ==
  /\ daysSinceUpdate(article, now) >= 90
  /\ article.currentRanking >= 3
  /\ article.currentRanking <= 20
  /\ article.impressions >= 1000
  /\ ("ctr" \notin DOMAIN article \/ article.ctr = 0 \/ article.ctr <= 100)

\* line 92
Draft(rewrittenContent, faqSection) ==
  rewrittenContent \o <<10, 10>> \o faqSection

\* the lists fetchCompanyInfo resolves to
CompanyInfoLists ==
  {<<>>,
   <<[title |-> <<24773, 22577>> (* 情報 *), category |-> "financial",
      isConfidential |-> TRUE, isPublic |-> FALSE]>>}

\* ClaudeService.ts lines 18-74: the text of the answer, or the original
RewrittenTexts(originalContent) == {<<24773, 22577, 53, 48, 48, 48, 19975, 20870>> (* 情報5000万円 *), originalContent}

\* ClaudeService.ts lines 76-127: the text of the answer, or ''
FaqTexts == {<<81, 32, 97, 64, 98, 46, 99, 111>> (* Q a@b.co *), <<>>}

\* ClaudeService.ts lines 299-338: the text of the answer, or the content
ReviewedTexts(text) == {text \o <<12290>> (* 。 *), text}

\* ClaudeService.ts lines 237-297: the suggestions of the answer, or []
LinkSuggestions(relatedArticles) ==
  IF relatedArticles = {} THEN {<<>>}
  ELSE {<<>>, <<[anchorText |-> <<19975, 20870>> (* 万円 *), url |-> <<47, 98>> (* /b *)]>>}

\* ClaudeService.ts lines 129-190: the title of the answer, or the current
RefinedTitles(currentTitle) == {<<26032, 38988>> (* 新題 *), currentTitle}

\* ClaudeService.ts lines 350-390
QualityScores == {75, 90}

\* where the first occurrence of a text starts in another, 0 for nowhere
RECURSIVE IndexOfFrom(_, _, _)
IndexOfFrom(text, part, from) ==
  IF from + Len(part) - 1 > Len(text) THEN 0
  ELSE IF SubSeq(text, from, from + Len(part) - 1) = part THEN from
  ELSE IndexOfFrom(text, part, from + 1)

\* lines 204-208: replace of a string pattern replaces its first occurrence
LinkFirst(text, suggestion) ==
  LET at == IndexOfFrom(text, suggestion.anchorText, 1)
  IN  IF at = 0 THEN text
      ELSE SubSeq(text, 1, at - 1)
             \o <<91 (* [ *)>> \o suggestion.anchorText \o <<93 (* ] *), 40 (* ( *)>>
             \o suggestion.url \o <<41 (* ) *)>>
             \o SubSeq(text, at + Len(suggestion.anchorText), Len(text))

\* lines 202-211
RECURSIVE LinkedFrom(_, _, _)
LinkedFrom(text, linkSuggestions, j) ==
  IF j > Len(linkSuggestions) THEN text
  ELSE LinkedFrom(LinkFirst(text, linkSuggestions[j]), linkSuggestions, j + 1)

\* lines 181-193
RelatedArticles(currentArticleId) ==
  {id \in DOMAIN prisma.article :
     id # currentArticleId /\ prisma.article[id].currentRanking <= 10}

Called(callee, given, returned) ==
  Append(calls, [callee |-> callee, argument |-> given, returned |-> returned])

\* lines 49-53: the call of processArticle as it enters the try block
Entered(articleId) ==
  [at |-> "findUnique", articleId |-> articleId,
   companyInfo |-> <<>>, rewrittenContent |-> <<>>,
   faqSection |-> <<>>, anonymizedContent |-> <<>>,
   reviewedContent |-> <<>>, finalContent |-> <<>>,
   newTitle |-> <<>>, qualityScore |-> 0, error |-> "none"]

\* line 49: processArticle is called
processArticle(articleId) ==
  /\ process.at = "idle"
  /\ Len(prisma.rewriteHistory) + Len(prisma.rewriteTask) < MaxRows
  /\ process' = Entered(articleId)
  /\ calls' = <<>>
  /\ UNCHANGED prisma
  /\ UNCHANGED outsideAgent

\* lines 55-62
FindUnique ==
  /\ process.at = "findUnique"
  /\ calls' = Called("article.findUnique", <<>>, <<>>)
  /\ IF process.articleId \in DOMAIN prisma.article
     THEN process' = [process EXCEPT !.at = Following(process.at)]
     ELSE process' = [process EXCEPT !.at = "catch", !.error = "not found"]
  /\ UNCHANGED prisma
  /\ UNCHANGED outsideAgent

\* lines 65-68
ShouldRewrite ==
  /\ process.at = "shouldRewrite"
  /\ IF shouldRewrite(prisma.article[process.articleId], Now)
     THEN process' = [process EXCEPT !.at = Following(process.at)]
     ELSE process' = [process EXCEPT !.at = "returned null"]
  /\ UNCHANGED <<prisma, calls>>
  /\ UNCHANGED outsideAgent

\* line 71
FetchCompanyInfo(rows) ==
  /\ process.at = "fetchCompanyInfo"
  /\ process' = [process EXCEPT !.at = Following(process.at), !.companyInfo = rows]
  /\ calls' = Called("companyInfo.findMany", <<>>, <<>>)
  /\ UNCHANGED prisma
  /\ UNCHANGED outsideAgent

\* lines 76-80
RewriteContent ==
  /\ process.at = "rewriteContent"
  /\ \E rewrittenContent \in RewrittenTexts(prisma.article[process.articleId].content) :
       /\ process' = [process EXCEPT !.at = Following(process.at),
                                     !.rewrittenContent = rewrittenContent]
       /\ calls' = Called("claude.rewriteContent",
                          prisma.article[process.articleId].content, rewrittenContent)
  /\ UNCHANGED prisma
  /\ UNCHANGED outsideAgent

\* lines 84-87
GenerateFAQ(faqSection) ==
  /\ process.at = "generateFAQ"
  /\ process' = [process EXCEPT !.at = Following(process.at), !.faqSection = faqSection]
  /\ calls' = Called("claude.generateFAQ", process.rewrittenContent, faqSection)
  /\ UNCHANGED prisma
  /\ UNCHANGED outsideAgent

\* lines 91-94
Anonymize(year) ==
  /\ process.at = "anonymize"
  /\ LET draft == Draft(process.rewrittenContent, process.faqSection)
         anonymized == Anonymized(draft, process.companyInfo, year)
     IN  /\ process' = [process EXCEPT !.at = Following(process.at),
                                       !.anonymizedContent = anonymized]
         /\ calls' = Called("anonymizer.anonymize", draft, anonymized)
  /\ UNCHANGED prisma
  /\ UNCHANGED outsideAgent

\* line 98
ReviewContent ==
  /\ process.at = "reviewContent"
  /\ \E reviewedContent \in ReviewedTexts(process.anonymizedContent) :
       /\ process' = [process EXCEPT !.at = Following(process.at),
                                     !.reviewedContent = reviewedContent]
       /\ calls' = Called("claude.reviewContent", process.anonymizedContent,
                          reviewedContent)
  /\ UNCHANGED prisma
  /\ UNCHANGED outsideAgent

\* lines 102 and 179-212
AddInternalLinks ==
  /\ process.at = "addInternalLinks"
  /\ \E linkSuggestions \in LinkSuggestions(RelatedArticles(process.articleId)) :
       LET linkedContent == LinkedFrom(process.reviewedContent, linkSuggestions, 1)
       IN  /\ process' = [process EXCEPT !.at = Following(process.at),
                                         !.finalContent = linkedContent]
           /\ calls' = Append(Called("article.findMany", <<>>, <<>>),
                              [callee |-> "claude.suggestInternalLinks",
                               argument |-> process.reviewedContent,
                               returned |-> linkedContent])
  /\ UNCHANGED prisma
  /\ UNCHANGED outsideAgent

\* lines 106-110
RefineTitle ==
  /\ process.at = "refineTitle"
  /\ \E newTitle \in RefinedTitles(prisma.article[process.articleId].title) :
       /\ process' = [process EXCEPT !.at = Following(process.at), !.newTitle = newTitle]
       /\ calls' = Called("claude.refineTitle", process.finalContent, newTitle)
  /\ UNCHANGED prisma
  /\ UNCHANGED outsideAgent

\* line 113
CalculateQualityScore(qualityScore) ==
  /\ process.at = "calculateQualityScore"
  /\ process' = [process EXCEPT !.at = Following(process.at),
                                !.qualityScore = qualityScore]
  /\ calls' = Called("claude.calculateQualityScore", process.finalContent, <<>>)
  /\ UNCHANGED prisma
  /\ UNCHANGED outsideAgent

\* lines 117-123 and 223-235: the article is the row findUnique returned
CreateRewriteHistory ==
  /\ process.at = "rewriteHistory.create"
  /\ LET article == prisma.article[process.articleId]
     IN  prisma' =
           [prisma EXCEPT
              !.rewriteHistory =
                Append(@, [articleId |-> article.id,
                           beforeTitle |-> article.title,
                           afterTitle |-> process.newTitle,
                           beforeContent |-> article.content,
                           afterContent |-> process.finalContent,
                           addedFaq |-> process.faqSection,
                           qualityScore |-> process.qualityScore])]
  /\ process' = [process EXCEPT !.at = Following(process.at)]
  /\ calls' = Called("rewriteHistory.create", process.finalContent, <<>>)
  /\ UNCHANGED outsideAgent

\* lines 238-246
UpdateArticle ==
  /\ process.at = "article.update"
  /\ prisma' =
       [prisma EXCEPT
          !.article[process.articleId] =
            [title |-> process.newTitle, content |-> process.finalContent,
             lastRewrittenAt |-> Now, rewriteCount |-> @.rewriteCount + 1]
              @@ @]
  /\ process' = [process EXCEPT !.at = Following(process.at)]
  /\ calls' = Called("article.update", process.finalContent, <<>>)
  /\ UNCHANGED outsideAgent

\* lines 126-137
ReturnSummary ==
  /\ process.at = "return"
  /\ process' = [process EXCEPT !.at = "returned"]
  /\ UNCHANGED <<prisma, calls>>
  /\ UNCHANGED outsideAgent

\* an awaited query, write or call to the API rejects: lines 55, 71
\* (165), 76 (ClaudeService.ts line 72), 102 (181), 117 (223, 238)
Rejects ==
  /\ process.at \in {"findUnique", "fetchCompanyInfo", "rewriteContent",
                     "addInternalLinks", "rewriteHistory.create", "article.update"}
  /\ process' = [process EXCEPT !.at = "catch", !.error = process.at]
  /\ calls' = Called(process.at, <<>>, <<>>)
  /\ UNCHANGED prisma
  /\ UNCHANGED outsideAgent

\* lines 139-152; a rejection of the write leaves processArticle in place
\* of the error caught
CreateFailedTask ==
  /\ process.at = "catch"
  /\ \/ /\ prisma' =
            [prisma EXCEPT
               !.rewriteTask =
                 Append(@, [articleId |-> process.articleId, status |-> "failed",
                            error |-> process.error])]
        /\ process' = [process EXCEPT !.at = "sendErrorNotification"]
     \/ /\ process' = [process EXCEPT !.at = "threw", !.error = "rewriteTask.create"]
        /\ UNCHANGED prisma
  /\ calls' = Called("rewriteTask.create", <<>>, <<>>)
  /\ UNCHANGED outsideAgent

\* lines 155-159; AnonymizationService.ts lines 385-403: a failure of the
\* post is caught there
SendErrorNotification ==
  /\ process.at = "sendErrorNotification"
  /\ process' = [process EXCEPT !.at = "threw"]
  /\ calls' = Called("slack.sendErrorNotification", <<>>, <<>>)
  /\ UNCHANGED prisma
  /\ UNCHANGED outsideAgent

\* the caller has the value or the error
Settled ==
  /\ process.at \in {"returned", "returned null", "threw"}
  /\ process' = [at |-> "idle"]
  /\ UNCHANGED <<prisma, calls>>
  /\ UNCHANGED outsideAgent

NextAgent ==
  \/ \E articleId \in {1, 2, 3} : processArticle(articleId)
  \/ FindUnique
  \/ ShouldRewrite
  \/ \E rows \in CompanyInfoLists : FetchCompanyInfo(rows)
  \/ RewriteContent
  \/ \E faqSection \in FaqTexts : GenerateFAQ(faqSection)
  \/ \E year \in Years : Anonymize(year)
  \/ ReviewContent
  \/ AddInternalLinks
  \/ RefineTitle
  \/ \E qualityScore \in QualityScores : CalculateQualityScore(qualityScore)
  \/ CreateRewriteHistory
  \/ UpdateArticle
  \/ ReturnSummary
  \/ Rejects
  \/ CreateFailedTask
  \/ SendErrorNotification
  \/ Settled

SpecAgent == Init /\ [][NextAgent]_vars

\* the places of the calls of a callee in the calls made so far
ClaimPlaces(callees) == {n \in DOMAIN calls : calls[n].callee \in callees}

ClaimWrites == {"rewriteHistory.create", "article.update"}

ClaimLinks == {"article.findMany", "claude.suggestInternalLinks"}

\* C20: in every run of processArticle that has come to write its result
\* to the database, anonymize has been called exactly once, with the
\* rewritten body, "\n\n" and the FAQ as rewriteContent and generateFAQ
\* returned them, after both had returned and before the calls of the link
\* insertion and before every write of the result.
C20_AnonymizeOnceBeforeLinksAndWrites ==
  (process.at # "idle" /\ ClaimPlaces(ClaimWrites) # {}) =>
    \E n \in DOMAIN calls :
      /\ ClaimPlaces({"anonymizer.anonymize"}) = {n}
      /\ \E r \in 1..(n - 1), f \in 1..(n - 1) :
           /\ ClaimPlaces({"claude.rewriteContent"}) = {r}
           /\ ClaimPlaces({"claude.generateFAQ"}) = {f}
           /\ calls[n].argument = calls[r].returned \o <<10, 10>> \o calls[f].returned
      /\ \A m \in ClaimPlaces(ClaimLinks \cup ClaimWrites) : n < m
      /\ ClaimPlaces(ClaimLinks) # {}

\* a run has written the history row and the article, its draft had a body
\* and a FAQ, and anonymize changed it
C20_Witness ==
  /\ process.at = "return"
  /\ ClaimPlaces({"article.update"}) # {}
  /\ process.rewrittenContent = <<24773, 22577, 53, 48, 48, 48, 19975, 20870>> (* 情報5000万円 *)
  /\ process.faqSection = <<81, 32, 97, 64, 98, 46, 99, 111>> (* Q a@b.co *)
  /\ process.anonymizedContent # Draft(process.rewrittenContent, process.faqSection)
  /\ prisma.article[1].content = process.finalContent

(***************************************************************************)
(* anonymize on what anonymize returned.                                   *)
(***************************************************************************)
\* C29: when anonymize is about to return, anonymize of the text it returns,
\* with the same records and in the same year, returns that text again.
C29_FixedPoint ==
  pc = "done" =>
    Anonymized(anonymizedContent, companyInfo, currentYear) = anonymizedContent

(***************************************************************************)
(* anonymize called with a record whose title is the empty string: line 67 *)
(* makes the pattern of the empty source, which matches at every place.    *)
(***************************************************************************)
EmptyTitleRecord ==
  [title |-> <<>>, category |-> "financial", isConfidential |-> TRUE, isPublic |-> FALSE]

EmptyTitleLists ==
  {<<EmptyTitleRecord>>,
   <<[title |-> <<24773, 22577>> (* 情報 *), category |-> "strategic",
      isConfidential |-> TRUE, isPublic |-> FALSE], EmptyTitleRecord>>,
   <<[EmptyTitleRecord EXCEPT !.isPublic = TRUE]>>}

EmptyTitleContents == {<<>>, <<97>> (* a *), <<97, 98>> (* ab *), <<97, 32, 98>> (* a b *), <<53, 48, 37>> (* 50% *), <<24773>> (* 情 *), <<97, 64, 98, 46, 99, 111>> (* a@b.co *)}

NextEmptyTitle ==
  \/ \E c \in EmptyTitleContents, infos \in EmptyTitleLists : anonymize(c, infos)
  \/ RedactNext
  \/ StartRules
  \/ ApplyNextRule
  \/ ObscureAmounts
  \/ ObscurePercents
  \/ TruncateDates
  \/ \E year \in Years : RelativeYears(year)
  \/ Return

SpecEmptyTitle == Init /\ [][NextEmptyTitle]_vars

\* the records of a list but those whose title is the empty string
ClaimTitled(infos) == SelectSeq(infos, LAMBDA info : info.title # <<>>)

\* C30: when anonymize is about to return for a list that holds
\* redaction-eligible records whose title is the empty string, it returns
\* the text it returns for the list without those records.
C30_EmptyTitleHarmless ==
  pc = "done" =>
    anonymizedContent = Anonymized(content, ClaimTitled(companyInfo), currentYear)

(***************************************************************************)
(* What one run of processArticle leaves behind.                           *)
(***************************************************************************)
ClaimApis ==
  {"claude.rewriteContent", "claude.generateFAQ", "claude.reviewContent",
   "claude.suggestInternalLinks", "claude.refineTitle", "claude.calculateQualityScore"}

ClaimRowWrites == {"rewriteHistory.create", "article.update", "rewriteTask.create"}

ClaimNotices == {"slack.sendErrorNotification"}

\* the run is for an id that has no article or for an article that fails
\* shouldRewrite, and no query of it has been rejected
ClaimSkipped ==
  /\ process.at \in {"returned", "returned null", "threw"}
  /\ process.error \in {"none", "not found"}
  /\ \/ process.articleId \notin DOMAIN prisma.article
     \/ ~shouldRewrite(prisma.article[process.articleId], Now)

\* C23: when processArticle is over for an id that has no article or for an
\* article that fails shouldRewrite, it has returned (not thrown), has called
\* none of the rewrite, FAQ, review and title APIs, has written no row and
\* has sent no notification.
C23_SkipLeavesNoTrace ==
  ClaimSkipped =>
    /\ process.at # "threw"
    /\ ClaimPlaces(ClaimApis \cup ClaimRowWrites \cup ClaimNotices) = {}
    /\ prisma.rewriteTask = <<>>

\* C24: when a run of processArticle has written its row of rewriteHistory,
\* the afterContent of the row is the text made from what anonymize
\* returned, and the addedFaq of the row is part of what anonymize returned
\* (the FAQ as anonymize left it), not the faqSection as generateFAQ
\* returned it.
C24_OnlyAnonymizedPersisted ==
  process.at \in {"article.update", "return", "returned"} =>
    LET row == prisma.rewriteHistory[Len(prisma.rewriteHistory)]
    IN  /\ row.afterContent = process.finalContent
        /\ Includes(process.anonymizedContent, row.addedFaq)

\* the rows of rewriteHistory of an article
ClaimHistoryRows(id) ==
  {n \in DOMAIN prisma.rewriteHistory : prisma.rewriteHistory[n].articleId = id}

\* C26: between the runs of processArticle, each article has as many rows of
\* rewriteHistory as its rewriteCount has grown by.
C26_HistoryMatchesCount ==
  process.at \in {"idle", "returned", "returned null", "threw"} =>
    \A id \in DOMAIN prisma.article :
      Cardinality(ClaimHistoryRows(id))
        = prisma.article[id].rewriteCount - Articles[id].rewriteCount

\* C28: when processArticle has thrown, the run has created exactly one row
\* of rewriteTask, with status 'failed' and the message of the error it
\* throws, has attempted the error notification, and the error it throws is
\* the error of the step that failed.
C28_FailureRecorded ==
  process.at = "threw" =>
    /\ Cardinality(ClaimPlaces({"rewriteTask.create"})) = 1
    /\ prisma.rewriteTask # <<>>
    /\ LET row == prisma.rewriteTask[Len(prisma.rewriteTask)]
       IN  /\ row.status = "failed"
           /\ row.articleId = process.articleId
           /\ row.error = process.error
    /\ ClaimPlaces(ClaimNotices) # {}
    /\ process.error # "rewriteTask.create"

(***************************************************************************)
(* The performance data of the articles (unnamed/part_000): what           *)
(* updateArticlesPerformance writes for one article, the position in       *)
(* tenths, the ctr in thousandths.                                         *)
(***************************************************************************)
Performances ==
  {[clicks |-> 10, impressions |-> 1000, ctr |-> 50, position |-> 25],
   [clicks |-> 10, impressions |-> 1001, ctr |-> 50, position |-> 35],
   [clicks |-> 10, impressions |-> 1001, ctr |-> 150, position |-> 110]}

\* Math.round of a number of tenths
Round(tenths) == (tenths + 5) \div 10

\* part_000 lines 152-160
WithPerformance(article, performance) ==
  [clicks |-> performance.clicks,
   impressions |-> performance.impressions,
   ctr |-> performance.ctr,
   currentRanking |-> Round(performance.position)] @@ article

\* part_000 lines 149-160: one iteration of updateArticlesPerformance, in
\* a call that is over before processArticle is called
UpdateArticlePerformance(id, performance) ==
  /\ process.at = "idle"
  /\ batch.at = "idle"
  /\ prisma.rewriteHistory = <<>>
  /\ prisma.rewriteTask = <<>>
  /\ prisma' = [prisma EXCEPT !.article[id] = WithPerformance(@, performance)]
  /\ UNCHANGED <<process, calls>>
  /\ UNCHANGED outsideAgent

\* processArticle called for any id, as src/cli.ts line 35 calls it, on
\* any performance data
NextEligibility ==
  \/ \E id \in DOMAIN prisma.article, performance \in Performances :
       UpdateArticlePerformance(id, performance)
  \/ \E articleId \in {1, 2, 3} : processArticle(articleId)
  \/ FindUnique
  \/ ShouldRewrite
  \/ FetchCompanyInfo(<<>>)
  \/ RewriteContent
  \/ GenerateFAQ(<<>>)
  \/ Anonymize(2026)
  \/ ReviewContent
  \/ AddInternalLinks
  \/ RefineTitle
  \/ CalculateQualityScore(75)
  \/ CreateRewriteHistory
  \/ UpdateArticle
  \/ ReturnSummary
  \/ Rejects
  \/ CreateFailedTask
  \/ SendErrorNotification
  \/ Settled

SpecEligibility == Init /\ [][NextEligibility]_vars

\* the conditions as REWRITE_AGENT_SETUP.md lines 183-188 state them
ClaimMayRewrite(article, now) ==
  /\ daysSinceUpdate(article, now) >= 90
  /\ article.currentRanking > 3
  /\ article.currentRanking <= 20
  /\ article.impressions > 1000

\* C22: when processArticle has passed the check of shouldRewrite, the
\* article has gone 90 days or more without an update, its ranking is 4 to
\* 20 and its impressions are more than 1000.
C22_RewriteEligibility ==
  process.at = "fetchCompanyInfo" =>
    ClaimMayRewrite(prisma.article[process.articleId], Now)

(***************************************************************************)
(* RewriteAgent.processAllArticles (part_002 lines 250-309), statement by  *)
(* statement; the calls of processArticle in it run as above.              *)
(***************************************************************************)
\* part_000 lines 205-230, the ctr in thousandths (null < 0.02 holds)
calculatePriority(article) ==
  (IF article.currentRanking >= 4 /\ article.currentRanking <= 10 THEN 30
   ELSE IF article.currentRanking >= 11 /\ article.currentRanking <= 20 THEN 20
   ELSE 0)
  + (IF article.impressions > 10000 THEN 20
     ELSE IF article.impressions > 5000 THEN 10
     ELSE 0)
  + (IF "ctr" \notin DOMAIN article \/ article.ctr < 20 THEN 15
     ELSE IF article.ctr < 50 THEN 10
     ELSE 0)

\* part_000 lines 171-193: the articles getRewriteCandidates keeps
CandidateIds(now) ==
  {id \in DOMAIN prisma.article :
     LET article == prisma.article[id]
     IN  /\ article.currentRanking > 3
         /\ article.currentRanking <= 20
         /\ article.impressions > 1000
         /\ daysSinceUpdate(article, now) >= 90}

\* part_000 lines 181-183 and 202: the orders getRewriteCandidates can
\* return them in: by priority, the larger first, and by ranking among
\* those of one priority (the sort is stable; the query leaves the order
\* of the articles of one ranking open)
CandidateOrders(now) ==
  LET ids == CandidateIds(now)
      n == Cardinality(ids)
  IN  {order \in [1..n -> ids] :
         /\ \A a, b \in 1..n : a # b => order[a] # order[b]
         /\ \A a, b \in 1..n :
              a < b =>
                LET first == prisma.article[order[a]]
                    second == prisma.article[order[b]]
                IN  \/ calculatePriority(first) > calculatePriority(second)
                    \/ /\ calculatePriority(first) = calculatePriority(second)
                       /\ first.currentRanking <= second.currentRanking}

Event(event, id, outcome) == [event |-> event, id |-> id, outcome |-> outcome]

\* the failure of processArticle leaves processAllArticles
AfterFailureUncaught(b) == [b EXCEPT !.at = "threw"]

\* lines 282-285: the catch block logs the failure, the loop goes on
AfterFailure(b) == [b EXCEPT !.at = "loop", !.index = @ + 1]

\* lines 250-255
processAllArticles ==
  /\ batch.at = "idle"
  /\ process.at = "idle"
  /\ prisma.rewriteHistory = <<>>
  /\ prisma.rewriteTask = <<>>
  /\ batch' = [at |-> "updateArticlesPerformance", articles |-> <<1, 2>>,
               index |-> 1, listed |-> FALSE, candidates |-> <<>>,
               results |-> <<>>, designRequests |-> <<>>]
  /\ events' = <<>>
  /\ UNCHANGED agentVars
  /\ UNCHANGED outsideBatch

\* line 255; part_000 lines 149-163: one iteration
UpdatePerformance(performance) ==
  /\ batch.at = "updateArticlesPerformance"
  /\ LET id == batch.articles[batch.index]
     IN  /\ prisma' = [prisma EXCEPT !.article[id] = WithPerformance(@, performance)]
         /\ events' = Append(events, Event("update", id, "resolved"))
  /\ batch' = [batch EXCEPT
                 !.index = @ + 1,
                 !.at = IF batch.index = Len(batch.articles)
                        THEN "getRewriteCandidates" ELSE @]
  /\ UNCHANGED <<process, calls>>
  /\ UNCHANGED outsideBatch

\* line 258
GetRewriteCandidates ==
  /\ batch.at = "getRewriteCandidates"
  /\ \E candidates \in CandidateOrders(Now) :
       batch' = [batch EXCEPT !.at = "loop", !.index = 1, !.listed = TRUE,
                              !.candidates = candidates]
  /\ events' = Append(events, Event("getRewriteCandidates", 0, "resolved"))
  /\ UNCHANGED agentVars
  /\ UNCHANGED outsideBatch

\* lines 264-266: processArticle is called for the next candidate
Attempt ==
  /\ batch.at = "loop"
  /\ batch.index <= Len(batch.candidates)
  /\ process.at = "idle"
  /\ process' = Entered(batch.candidates[batch.index])
  /\ calls' = <<>>
  /\ batch' = [batch EXCEPT !.at = "processArticle"]
  /\ events' = Append(events, Event("start", batch.candidates[batch.index], "called"))
  /\ UNCHANGED prisma
  /\ UNCHANGED outsideBatch

\* lines 266-277: processArticle has returned a summary or null
Returned ==
  /\ batch.at = "processArticle"
  /\ process.at \in {"returned", "returned null"}
  /\ process' = [at |-> "idle"]
  /\ batch' =
       IF process.at = "returned"
       THEN [batch EXCEPT
               !.at = "delay",
               !.results = Append(@, [newTitle |-> process.newTitle,
                                      qualityScore |-> process.qualityScore,
                                      faqAdded |-> process.faqSection # <<>>]),
               !.designRequests = Append(@, [articleTitle |-> process.newTitle,
                                             articleUrl |-> prisma.article[process.articleId].url])]
       ELSE [batch EXCEPT !.at = "delay"]
  /\ events' = Append(events, Event("end", process.articleId, process.at))
  /\ UNCHANGED <<prisma, calls>>
  /\ UNCHANGED outsideBatch

\* lines 266 and 282-285: processArticle has thrown
Failed ==
  /\ batch.at = "processArticle"
  /\ process.at = "threw"
  /\ process' = [at |-> "idle"]
  /\ batch' = AfterFailure(batch)
  /\ events' = Append(events, Event("end", process.articleId, process.at))
  /\ UNCHANGED <<prisma, calls>>
  /\ UNCHANGED outsideBatch

\* line 280: the timer of 2000 ms has fired
Delay ==
  /\ batch.at = "delay"
  /\ batch' = [batch EXCEPT !.at = "loop", !.index = @ + 1]
  /\ events' = Append(events, Event("delay", 0, "2000"))
  /\ UNCHANGED agentVars
  /\ UNCHANGED outsideBatch

\* lines 288-290; AnonymizationService.ts lines 241-256: a failure of the
\* post is thrown again
SendDesignRequest ==
  /\ batch.at = "loop"
  /\ batch.index > Len(batch.candidates)
  /\ batch.designRequests # <<>>
  /\ \/ /\ batch' = [batch EXCEPT !.at = "sendDailySummary"]
        /\ events' = Append(events, Event("sendDesignRequest", 0, "resolved"))
     \/ /\ batch' = [batch EXCEPT !.at = "threw"]
        /\ events' = Append(events, Event("sendDesignRequest", 0, "rejected"))
  /\ UNCHANGED agentVars
  /\ UNCHANGED outsideBatch

\* line 288: no design request to send
NoDesignRequest ==
  /\ batch.at = "loop"
  /\ batch.index > Len(batch.candidates)
  /\ batch.designRequests = <<>>
  /\ batch' = [batch EXCEPT !.at = "sendDailySummary"]
  /\ UNCHANGED events
  /\ UNCHANGED agentVars
  /\ UNCHANGED outsideBatch

\* lines 293-308; AnonymizationService.ts lines 406-458: a failure of the
\* post is caught there
SendDailySummary ==
  /\ batch.at = "sendDailySummary"
  /\ batch' = [batch EXCEPT !.at = "done"]
  /\ events' = Append(events, Event("sendDailySummary", Len(batch.results), "resolved"))
  /\ UNCHANGED agentVars
  /\ UNCHANGED outsideBatch

\* lines 255 and 258: a query or a write of the database rejects
BatchRejects ==
  /\ batch.at \in {"updateArticlesPerformance", "getRewriteCandidates"}
  /\ batch' = [batch EXCEPT !.at = "threw"]
  /\ events' = Append(events, Event(batch.at, 0, "rejected"))
  /\ UNCHANGED agentVars
  /\ UNCHANGED outsideBatch

\* the caller has the outcome
BatchSettled ==
  /\ batch.at \in {"done", "threw"}
  /\ batch' = [at |-> "idle"]
  /\ UNCHANGED events
  /\ UNCHANGED agentVars
  /\ UNCHANGED outsideBatch

NextBatch ==
  \/ processAllArticles
  \/ \E performance \in Performances : UpdatePerformance(performance)
  \/ GetRewriteCandidates
  \/ Attempt
  \/ Returned
  \/ Failed
  \/ Delay
  \/ SendDesignRequest
  \/ NoDesignRequest
  \/ SendDailySummary
  \/ BatchRejects
  \/ BatchSettled
  \/ FindUnique
  \/ ShouldRewrite
  \/ FetchCompanyInfo(<<>>)
  \/ RewriteContent
  \/ GenerateFAQ(<<>>)
  \/ Anonymize(2026)
  \/ ReviewContent
  \/ AddInternalLinks
  \/ RefineTitle
  \/ CalculateQualityScore(75)
  \/ CreateRewriteHistory
  \/ UpdateArticle
  \/ ReturnSummary
  \/ Rejects
  \/ CreateFailedTask
  \/ SendErrorNotification

SpecBatch == Init /\ [][NextBatch]_vars

\* the places of the events of a kind
ClaimEvents(kind) == {n \in DOMAIN events : events[n].event = kind}

\* C21: processAllArticles has one call of processArticle under way at a
\* time, and every call of processArticle but the first starts right after
\* the delay of 2000 ms that followed the end of the call before it, however
\* that call ended.
C21_DelayBetweenCandidates ==
  \A n \in ClaimEvents("start") :
    /\ \A m \in ClaimEvents("start") :
         m < n => \E e \in ClaimEvents("end") : m < e /\ e < n
    /\ (\E m \in ClaimEvents("start") : m < n) => events[n - 1].event = "delay"

\* the ids processArticle has been called for, in the order of the calls
ClaimAttempts ==
  LET starts == SelectSeq(events, LAMBDA e : e.event = "start")
  IN  [n \in 1..Len(starts) |-> starts[n].id]

\* C27: once getRewriteCandidates has returned, processArticle is called for
\* its candidates in the order returned, once each; when processAllArticles
\* is over, it has been called for every one of them, whichever of the calls
\* failed, and the daily summary has been sent after the last of them, unless
\* the post of the design requests was rejected (which, and nothing else,
\* ends processAllArticles before the summary).
C27_EveryCandidateAttempted ==
  (batch.at # "idle" /\ batch.listed) =>
    /\ Len(ClaimAttempts) <= Len(batch.candidates)
    /\ ClaimAttempts = SubSeq(batch.candidates, 1, Len(ClaimAttempts))
    /\ batch.at \in {"done", "threw"} => ClaimAttempts = batch.candidates
    /\ batch.at = "done" =>
         /\ events[Len(events)].event = "sendDailySummary"
         /\ \A n \in ClaimEvents("start") : n < Len(events)
    /\ batch.at = "threw" =>
         events[Len(events)] = Event("sendDesignRequest", 0, "rejected")

\* processAllArticles is over: the call of processArticle for the first of
\* two candidates threw, the second was rewritten, the summary was sent
C27_Witness ==
  /\ batch.at = "done"
  /\ Len(batch.candidates) = 2
  /\ \E a, b \in ClaimEvents("end") :
       /\ a < b
       /\ events[a].id = batch.candidates[1]
       /\ events[a].outcome = "threw"
       /\ events[b].id = batch.candidates[2]
       /\ events[b].outcome = "returned"
  /\ events[Len(events)].event = "sendDailySummary"

(***************************************************************************)
(* The scheduler (unnamed/part_001).  The cron callback and                *)
(* runRewriteAgent hold no reference of their own to the RewriteAgent they *)
(* make: each statement reads the variable agent of the module anew.  A    *)
(* handler runs from one await to the next without interruption.           *)
(***************************************************************************)
\* the RewriteAgents the model lets the scheduler make
MaxAgents == 3

\* lines 20-21 and 38-39: the finally block reads the variable of the module
ToCleanUp(own, shared) == shared

\* lines 11-16 and 28-33: the cron callback or runRewriteAgent is called,
\* makes an agent and calls processAllArticles on it
Run(h) ==
  /\ ~exited
  /\ handlers[h].at = "idle"
  /\ Len(agents) < MaxAgents
  /\ agents' = Append(agents, [processing |-> "running", cleanups |-> 0])
  /\ agent' = Len(agents) + 1
  /\ handlers' = [handlers EXCEPT
                    ![h] = [at |-> "processAllArticles", own |-> Len(agents) + 1]]
  /\ UNCHANGED exited
  /\ UNCHANGED outsideScheduler

\* lines 16-21 and 33-39: processAllArticles has resolved or rejected; the
\* catch block logs, the finally block calls cleanup if agent is not null
Finally(h, outcome) ==
  /\ ~exited
  /\ handlers[h].at = "processAllArticles"
  /\ LET own == handlers[h].own
         target == ToCleanUp(own, agent)
     IN  IF target # 0
         THEN /\ agents' = [agents EXCEPT
                              ![own].processing = "finished",
                              ![target].cleanups = @ + 1]
              /\ handlers' = [handlers EXCEPT
                                ![h] = [at |-> "cleanup", own |-> own,
                                        outcome |-> outcome]]
         ELSE /\ agents' = [agents EXCEPT ![own].processing = "finished"]
              /\ handlers' = [handlers EXCEPT ![h] = [at |-> "idle"]]
  /\ UNCHANGED <<agent, exited>>
  /\ UNCHANGED outsideScheduler

\* lines 21-24 and 39-42: cleanup has resolved, agent = null; when it
\* rejects, its error leaves the handler
CleanedUp(h) ==
  /\ ~exited
  /\ handlers[h].at = "cleanup"
  /\ \/ agent' = 0
     \/ UNCHANGED agent
  /\ handlers' = [handlers EXCEPT ![h] = [at |-> "idle"]]
  /\ UNCHANGED <<agents, exited>>
  /\ UNCHANGED outsideScheduler

\* lines 46-51: SIGINT
Sigint ==
  /\ ~exited
  /\ handlers["SIGINT"].at = "idle"
  /\ IF agent # 0
     THEN /\ agents' = [agents EXCEPT ![agent].cleanups = @ + 1]
          /\ handlers' = [handlers EXCEPT !["SIGINT"] = [at |-> "cleanup"]]
          /\ UNCHANGED exited
     ELSE /\ exited' = TRUE
          /\ UNCHANGED <<agents, handlers>>
  /\ UNCHANGED agent
  /\ UNCHANGED outsideScheduler

\* lines 49-51: cleanup has resolved, process.exit(0)
Exit ==
  /\ ~exited
  /\ handlers["SIGINT"].at = "cleanup"
  /\ exited' = TRUE
  /\ UNCHANGED <<agent, agents, handlers>>
  /\ UNCHANGED outsideScheduler

NextScheduler ==
  \/ \E h \in {"cron", "runRewriteAgent"} : Run(h)
  \/ \E h \in {"cron", "runRewriteAgent"}, outcome \in {"resolved", "rejected"} :
       Finally(h, outcome)
  \/ \E h \in {"cron", "runRewriteAgent"} : CleanedUp(h)
  \/ Sigint
  \/ Exit

SpecScheduler == Init /\ [][NextScheduler]_vars

\* C25: cleanup is called at most once on each RewriteAgent, and only after
\* the call of processAllArticles on that agent is over; when no handler is
\* under way, it has been called exactly once on each agent made.
C25_CleanupOncePerAgent ==
  \A a \in DOMAIN agents :
    /\ agents[a].cleanups <= 1
    /\ agents[a].cleanups >= 1 => agents[a].processing = "finished"
    /\ (~exited /\ \A h \in DOMAIN handlers : handlers[h].at = "idle")
         => agents[a].cleanups = 1

=============================================================================
